---- MODULE Spec2Model ----
(***************************************************************************)
(* A model of the quota-bounded probing engine of ipyx:                    *)
(*   src/ip_tester.py     the batch orchestrator (main), IPTester          *)
(*   src/merge_results.py the merge of per-batch result directories        *)
(* Latencies are kept in tenths of a millisecond (LatScale), so that the   *)
(* rounding done by the persisted format is visible.                       *)
(***************************************************************************)
EXTENDS Integers, Sequences, FiniteSets, TLC

(* ------------------------------ bounds -------------------------------- *)
MaxPool == 3
MaxBatch == 3
MaxTarget == 2
MaxHostBits == 2
MaxCount == 5
MaxDirs == 2
MaxLines == 1
MaxSources == 3
MaxFileLines == 3
Ceiling == 2
(* ip_delay_tester: the batch size and the per-country quota, scaled down *)
CONCURRENT_TESTS == 2
MAX_IPS_PER_COUNTRY == 1

(* -------------------------- program constants -------------------------- *)
MAX_LATENCY == 2000
MaxAttempts == 2
LatScale == 10

TARGET_PORTS == <<8443>>
TARGET_COUNTRIES == <<"US", "JP">>

(* ------------------------------ helpers -------------------------------- *)
None == <<>>
Some(x) == <<x>>
Min(a, b) == IF a < b THEN a ELSE b
Range(s) == {s[i] : i \in 1..Len(s)}

(* An IPv4 address is the sequence of its four octets. *)
Addr(a, b, c, d) == <<a, b, c, d>>
Hi(ip) == ip[1] * 256 + ip[2]
Lo(ip) == ip[3] * 256 + ip[4]
(* ip lies in the network base/bits *)
InNet(ip, base, bits) ==
    IF bits <= 16
    THEN Hi(ip) \div 2^(16 - bits) = Hi(base) \div 2^(16 - bits)
    ELSE Hi(ip) = Hi(base) /\ Lo(ip) \div 2^(32 - bits) = Lo(base) \div 2^(32 - bits)

(* ipaddress: is_private / is_loopback / is_link_local of an IPv4 address *)
is_private(ip) ==
    \/ InNet(ip, Addr(0, 0, 0, 0), 8)
    \/ InNet(ip, Addr(10, 0, 0, 0), 8)
    \/ InNet(ip, Addr(127, 0, 0, 0), 8)
    \/ InNet(ip, Addr(169, 254, 0, 0), 16)
    \/ InNet(ip, Addr(172, 16, 0, 0), 12)
    \/ InNet(ip, Addr(192, 0, 0, 0), 29)
    \/ InNet(ip, Addr(192, 0, 0, 170), 31)
    \/ InNet(ip, Addr(192, 0, 2, 0), 24)
    \/ InNet(ip, Addr(192, 168, 0, 0), 16)
    \/ InNet(ip, Addr(198, 18, 0, 0), 15)
    \/ InNet(ip, Addr(198, 51, 100, 0), 24)
    \/ InNet(ip, Addr(203, 0, 113, 0), 24)
    \/ InNet(ip, Addr(240, 0, 0, 0), 4)
is_loopback(ip) == InNet(ip, Addr(127, 0, 0, 0), 8)
is_link_local(ip) == InNet(ip, Addr(169, 254, 0, 0), 16)

(* --------------------------- the classifier ---------------------------- *)
(* A colo is the sequence of its characters.                               *)
LowerCase == <<"a", "b", "c", "d", "e", "f", "g", "h", "i", "j", "k", "l", "m", "n", "o", "p", "q", "r", "s", "t", "u", "v", "w", "x", "y", "z">>
UpperCase == <<"A", "B", "C", "D", "E", "F", "G", "H", "I", "J", "K", "L", "M", "N", "O", "P", "Q", "R", "S", "T", "U", "V", "W", "X", "Y", "Z">>
upper(ch) ==
    IF \E i \in 1..Len(LowerCase) : LowerCase[i] = ch
    THEN UpperCase[CHOOSE i \in 1..Len(LowerCase) : LowerCase[i] = ch]
    ELSE ch
(* a variant of colo_code that lacks the upper-casing *)
colo_code_plain(colo) == [i \in 1..Min(3, Len(colo)) |-> colo[i]]
(* colo[:3].upper() *)
colo_code(colo) == [i \in 1..Min(3, Len(colo)) |-> upper(colo[i])]
colo_to_country ==
    [c \in {<<"A", "T", "L">>, <<"B", "O", "S">>, <<"B", "U", "F">>, <<"C", "H", "I">>, <<"D", "E", "N">>, <<"D", "F", "W">>, <<"E", "W", "R">>, <<"I", "A", "D">>, <<"L", "A", "S">>, <<"L", "A", "X">>, <<"M", "I", "A">>, <<"M", "S", "P">>, <<"O", "R", "D">>, <<"P", "D", "X">>, <<"P", "H", "X">>, <<"S", "A", "N">>, <<"S", "E", "A">>, <<"S", "J", "C">>, <<"S", "T", "L">>, <<"I", "A", "H">>} |-> "US"] @@
    [c \in {<<"H", "K", "G">>} |-> "HK"] @@
    [c \in {<<"T", "P", "E">>} |-> "TW"] @@
    [c \in {<<"N", "R", "T">>, <<"K", "I", "X">>, <<"I", "T", "M">>} |-> "JP"] @@
    [c \in {<<"I", "C", "N">>, <<"G", "M", "P">>} |-> "KR"] @@
    [c \in {<<"S", "I", "N">>} |-> "SG"] @@
    [c \in {<<"L", "H", "R">>, <<"M", "A", "N">>, <<"E", "D", "I">>} |-> "GB"] @@
    [c \in {<<"F", "R", "A">>, <<"D", "U", "S">>, <<"H", "A", "M">>, <<"M", "U", "C">>} |-> "DE"] @@
    [c \in {<<"C", "D", "G">>, <<"M", "R", "S">>} |-> "FR"] @@
    [c \in {<<"A", "M", "S">>} |-> "NL"] @@
    [c \in {<<"S", "Y", "D">>, <<"M", "E", "L">>, <<"P", "E", "R">>, <<"B", "N", "E">>} |-> "AU"] @@
    [c \in {<<"Y", "Y", "Z">>, <<"Y", "V", "R">>, <<"Y", "U", "L">>} |-> "CA"] @@
    [c \in {<<"G", "R", "U">>, <<"G", "I", "G">>} |-> "BR"] @@
    [c \in {<<"B", "O", "M">>, <<"D", "E", "L">>} |-> "IN"] @@
    [c \in {<<"M", "A", "D">>} |-> "ES"] @@
    [c \in {<<"M", "X", "P">>} |-> "IT"] @@
    [c \in {<<"A", "R", "N">>} |-> "SE"] @@
    [c \in {<<"C", "P", "H">>} |-> "DK"] @@
    [c \in {<<"W", "A", "W">>} |-> "PL"] @@
    [c \in {<<"P", "R", "G">>} |-> "CZ"] @@
    [c \in {<<"V", "I", "E">>} |-> "AT"] @@
    [c \in {<<"Z", "R", "H">>} |-> "CH"]
_get_country_from_colo(colo) ==
    IF colo_code(colo) \in DOMAIN colo_to_country
    THEN colo_to_country[colo_code(colo)]
    ELSE "UNKNOWN"

(* ------------------------- inputs of the model ------------------------- *)
(* The address the trace endpoint echoes for a direct connection.          *)
ClientAddr == Addr(9, 9, 9, 9)
(* Latencies in tenths of a millisecond: 30, 50, 80 and 2000.1 ms.         *)
Latencies == {300, 500, 800, 20001}
Colos == {<<"L", "A", "X">>, <<"N", "R", "T">>, <<"L", "H", "R">>}

(* The candidate strings of the pool: a bare address has port 0, the      *)
(* proxy source yields address:port.  Entry 2 is a private address, entry *)
(* 3 is entry 1 in address:port form.                                     *)
PoolEntry(i) ==
    CASE i = 2 -> [host |-> Addr(10, 0, 0, 2), port |-> 0]
      [] i = 3 -> [host |-> Addr(1, 1, 1, 1), port |-> TARGET_PORTS[1]]
      [] OTHER -> [host |-> Addr(1, 1, 1, i), port |-> 0]
Pools == {[i \in 1..n |-> PoolEntry(i)] : n \in 0..MaxPool}
TargetChoices ==
    {[c \in Range(TARGET_COUNTRIES) |-> IF c = "US" THEN t ELSE 1] : t \in 1..MaxTarget}
    \cup {[c \in Range(TARGET_COUNTRIES) |-> IF c = "US" THEN 1 ELSE 0]}

(* Whether a host is a relay is a property of the host: a relay reaches   *)
(* the trace endpoint from its own address, which the endpoint echoes; a  *)
(* direct endpoint sees the address of the client.                        *)
IsRelay(host) == host[4] % 2 = 0
EchoOf(host) == IF IsRelay(host) THEN host ELSE ClientAddr

(* The measurements the model draws from: every latency for a US colo, two *)
(* for a JP colo, one for a colo of a country that is no target.           *)
Measurements ==
    (Latencies \X {<<"L", "A", "X">>})
    \cup ({300, 500} \X {<<"N", "R", "T">>})
    \cup ({300} \X {<<"L", "H", "R">>})

(* What the network answers to one GET of the trace URL: status 0 is a    *)
(* timeout or a transport error, rip is the echoed address (<<>>: none).  *)
NoResponse == [status |-> 0, latency |-> 0, colo |-> <<>>, rip |-> <<>>]
Responses(host) ==
    {NoResponse, [NoResponse EXCEPT !.status = 403]}
    \cup {[status |-> 200, latency |-> m[1], colo |-> m[2], rip |-> EchoOf(host)] :
            m \in Measurements}

(* ------------------------------- state --------------------------------- *)
VARIABLES
    pc,               \* position of main: start, loop, probing, final, done, aborted
    ips,              \* the shuffled pool, after the max-ips cut
    concurrent,       \* args.concurrent: the batch size of main
    max_concurrent,   \* tester.max_concurrent: the width of the semaphore
    target_counts,    \* tester.target_counts
    max_latency,      \* tester.max_latency, in ms
    batch_index,      \* loop variable of main
    tasks,            \* the coroutines of the batch being probed
    results,          \* tester.results
    all_results,      \* all_results of main
    aliased,          \* tester.results is the dict all_results
    batch_results,    \* what the last test_ips returned
    completed_counts, \* tester.completed_counts
    should_stop,      \* should_stop of main
    files,            \* <country>_ips.txt in the output directory
    summary,          \* summary.txt in the output directory
    dialed,           \* the endpoints a GET was issued to
    cidr,             \* the running call of _generate_ips_from_cidr
    merge,            \* the running call of merge_batch_results
    pool,             \* the running call of get_all_ips
    call              \* the running call of a function on its own

main_vars == <<pc, ips, concurrent, max_concurrent, target_counts, max_latency, batch_index, tasks,
               results, all_results, aliased, batch_results, completed_counts,
               should_stop, files, summary, dialed>>
vars == <<main_vars, cidr, merge, pool, call>>

(* ------------------------------ dict helpers --------------------------- *)
EmptyDict == <<>>
Get(d, k) == IF k \in DOMAIN d THEN d[k] ELSE <<>>
GetCount(d, k) == IF k \in DOMAIN d THEN d[k] ELSE 0
Put(d, k, v) == [x \in DOMAIN d \cup {k} |-> IF x = k THEN v ELSE d[x]]

(* ------------------------------ IPTester ------------------------------- *)
total_batches == (Len(ips) + concurrent - 1) \div concurrent
(* a variant of batch_ips whose slice starts one entry early *)
batch_ips_overlap ==
    SubSeq(ips, IF batch_index = 0 THEN 1 ELSE batch_index * concurrent,
           Min((batch_index + 1) * concurrent, Len(ips)))
(* main: ips[start_idx:end_idx] *)
batch_ips ==
    SubSeq(ips, batch_index * concurrent + 1,
           Min((batch_index + 1) * concurrent, Len(ips)))

(* a variant of _should_stop_testing whose per-country test is > for >= *)
_should_stop_testing_gt(country_code, res) ==
    IF /\ country_code # ""
       /\ country_code \in Range(TARGET_COUNTRIES)
       /\ Len(Get(res, country_code)) > GetCount(target_counts, country_code)
    THEN TRUE
    ELSE IF country_code = ""
         THEN \A c \in Range(TARGET_COUNTRIES) :
                  ~(Len(Get(res, c)) < GetCount(target_counts, c))
         ELSE FALSE

(* a variant of _should_stop_testing whose global test returns at the     *)
(* first satisfied country                                                *)
_should_stop_testing_any(country_code, res) ==
    IF /\ country_code # ""
       /\ country_code \in Range(TARGET_COUNTRIES)
       /\ Len(Get(res, country_code)) >= GetCount(target_counts, country_code)
    THEN TRUE
    ELSE IF country_code = ""
         THEN \E c \in Range(TARGET_COUNTRIES) :
                  ~(Len(Get(res, c)) < GetCount(target_counts, c))
         ELSE FALSE

_should_stop_testing(country_code, res) ==
    IF /\ country_code # ""
       /\ country_code \in Range(TARGET_COUNTRIES)
       /\ Len(Get(res, country_code)) >= GetCount(target_counts, country_code)
    THEN TRUE
    ELSE IF country_code = ""
         THEN \A c \in Range(TARGET_COUNTRIES) :
                  ~(Len(Get(res, c)) < GetCount(target_counts, c))
         ELSE FALSE

_parse_ip_format(ip_string, default_port) ==
    [host |-> ip_string.host,
     port |-> IF ip_string.port # 0 THEN ip_string.port ELSE default_port]

(* a variant of _single_test that labels the other way round *)
_single_test_differs(ip, port, resp) ==
    IF resp.status = 200 /\ resp.rip # <<>> /\ resp.colo # <<>>
    THEN Some([ip |-> ip, port |-> port, latency |-> resp.latency,
               colo |-> resp.colo,
               type |-> IF resp.rip # ip THEN "proxy" ELSE "official",
               response_ip |-> resp.rip])
    ELSE None

(* _single_test, from the response on: resp is what the GET of the trace  *)
(* URL gave; an address of other than 4 parts is an IPv6 address, written *)
(* with colons                                                            *)
_single_test(ip, port, resp) ==
    IF resp.status = 200 /\ resp.rip # <<>> /\ resp.colo # <<>>
    THEN Some([ip |-> ip, port |-> port, latency |-> resp.latency,
               colo |-> resp.colo,
               type |-> IF Len(resp.rip) # 4 \/ resp.rip = ip THEN "proxy" ELSE "official",
               response_ip |-> resp.rip])
    ELSE None

IPResult(b) ==
    [ip |-> b.ip, port |-> b.port, latency |-> b.latency, colo |-> b.colo,
     country |-> b.country, type |-> b.type]

NewTask ==
    [st |-> "waiting", pi |-> 1, att |-> 1, result |-> None, best |-> None,
     ret |-> None]
(* test_ip returns: the locals of the coroutine are gone *)
Return(ret) ==
    [st |-> "done", pi |-> 0, att |-> 0, result |-> None, best |-> None,
     ret |-> ret]
(* self.target_ports: the port list the tester was built with; it is the *)
(* default list unless the call under study was given its own             *)
target_ports == IF "ports" \in DOMAIN call THEN call.ports ELSE TARGET_PORTS

(* test_ip: the port loop moves on to the next port, or returns *)
AfterPort(t) ==
    IF t.pi < Len(target_ports)
    THEN [t EXCEPT !.pi = t.pi + 1, !.att = 1]
    ELSE Return(IF t.best # None THEN Some(IPResult(t.best[1])) ELSE None)
(* a variant of NextAttempt whose range holds a third attempt *)
NextAttempt_thrice(t) ==
    IF t.att < MaxAttempts + 1 THEN [t EXCEPT !.att = t.att + 1] ELSE AfterPort(t)
(* a variant of NextAttempt whose attempt loop never runs out *)
NextAttempt_again(t) == [t EXCEPT !.att = (MaxAttempts + 1) - t.att]
(* test_ip: the attempt loop moves on to the next attempt *)
NextAttempt(t) ==
    IF t.att < MaxAttempts THEN [t EXCEPT !.att = t.att + 1] ELSE AfterPort(t)
(* a variant of test_ip that lacks the latency filter *)
test_ip_unfiltered(t, port) ==
    IF t.result = None
    THEN NextAttempt(t)
    ELSE LET r == t.result[1]
             country_code == _get_country_from_colo(r.colo)
         IN  IF _should_stop_testing(country_code, results)
             THEN Return(None)
             ELSE IF t.best = None \/ r.latency < t.best[1].latency
             THEN AfterPort([t EXCEPT !.best =
                      Some([ip |-> r.ip, port |-> port, latency |-> r.latency,
                            colo |-> r.colo, type |-> r.type,
                            response_ip |-> r.response_ip,
                            country |-> country_code])])
             ELSE AfterPort(t)

(* test_ip: what follows one _single_test of the attempt loop; t.result   *)
(* is what that _single_test returned.                                    *)
test_ip(t, port) ==
    IF t.result = None
    THEN NextAttempt(t)
    ELSE LET r == t.result[1]
             country_code == _get_country_from_colo(r.colo)
         IN  IF r.latency > max_latency * LatScale
             THEN NextAttempt(t)
             ELSE IF _should_stop_testing(country_code, results)
             THEN Return(None)
             ELSE IF t.best = None \/ r.latency < t.best[1].latency
             THEN AfterPort([t EXCEPT !.best =
                      Some([ip |-> r.ip, port |-> port, latency |-> r.latency,
                            colo |-> r.colo, type |-> r.type,
                            response_ip |-> r.response_ip,
                            country |-> country_code])])
             ELSE AfterPort(t)

(* test_ips, after gather: the results in task order that are an IPResult *)
RECURSIVE valid_results(_)
valid_results(ts) ==
    IF ts = <<>> THEN <<>>
    ELSE (IF Head(ts).ret # None THEN <<Head(ts).ret[1]>> ELSE <<>>)
         \o valid_results(Tail(ts))

(* a variant of test_ips that checks the quota against the store as it    *)
(* was when the batch started                                             *)
RECURSIVE test_ips_stale(_, _, _, _)
test_ips_stale(valid, res, batch, counts) ==
    IF valid = <<>>
    THEN [results |-> res, batch_results |-> batch, completed_counts |-> counts]
    ELSE LET result == Head(valid)
             c == result.country
         IN  IF c \in Range(TARGET_COUNTRIES) /\ ~_should_stop_testing(c, results)
             THEN test_ips_stale(Tail(valid),
                                 Put(res, c, Append(Get(res, c), result)),
                                 Put(batch, c, Append(Get(batch, c), result)),
                                 Put(counts, c, Len(Get(res, c)) + 1))
             ELSE test_ips_stale(Tail(valid), res, batch, counts)

(* test_ips: the loop over valid_results; res is self.results *)
RECURSIVE test_ips(_, _, _, _)
test_ips(valid, res, batch, counts) ==
    IF valid = <<>>
    THEN [results |-> res, batch_results |-> batch, completed_counts |-> counts]
    ELSE LET result == Head(valid)
             c == result.country
         IN  IF c \in Range(TARGET_COUNTRIES) /\ ~_should_stop_testing(c, res)
             THEN test_ips(Tail(valid),
                           Put(res, c, Append(Get(res, c), result)),
                           Put(batch, c, Append(Get(batch, c), result)),
                           Put(counts, c, Len(Get(res, c)) + 1))
             ELSE test_ips(Tail(valid), res, batch, counts)

(* main: all_results[country].extend(ip_results) for the batch's results;  *)
(* tested is tester.results as test_ips left it.                           *)
(* a variant of merge_batch that replaces the accumulated lists with the   *)
(* lists of the batch instead of extending them                            *)
merge_batch_replace(tested, batch) ==
    [c \in DOMAIN batch |-> Get(batch, c)]

merge_batch(tested, batch) ==
    LET base == IF aliased THEN tested ELSE all_results
    IN  [c \in DOMAIN base \cup DOMAIN batch |-> Get(base, c) \o Get(batch, c)]

(* a variant of sort_by_latency that leaves the list as it is *)
sort_by_latency_none(s) == s
(* list.sort(key=latency): stable *)
RECURSIVE sort_by_latency(_)
sort_by_latency(s) ==
    IF s = <<>> THEN <<>>
    ELSE LET init == sort_by_latency(SubSeq(s, 1, Len(s) - 1))
             x == s[Len(s)]
             k == Cardinality({i \in 1..Len(init) : init[i].latency <= x.latency})
         IN  SubSeq(init, 1, k) \o <<x>> \o SubSeq(init, k + 1, Len(init))

(* f"{latency:.0f}": round half to even, latency in tenths of a ms *)
Round0(l) ==
    LET q == l \div LatScale
        r == l % LatScale
    IN  IF 2 * r < LatScale THEN q
        ELSE IF 2 * r > LatScale THEN q + 1
        ELSE IF q % 2 = 0 THEN q ELSE q + 1

TypeTextOfficial == "official-label"
TypeTextProxy == "proxy-label"
(* a variant of to_display_format that cuts the fraction off *)
to_display_format_floor(r) ==
    [kind |-> "result", ip |-> r.ip, port |-> r.port, country |-> r.country,
     type_text |-> IF r.type = "official" THEN TypeTextOfficial ELSE TypeTextProxy,
     ms |-> r.latency \div LatScale]
(* IPResult.to_display_format *)
to_display_format(r) ==
    [kind |-> "result", ip |-> r.ip, port |-> r.port, country |-> r.country,
     type_text |-> IF r.type = "official" THEN TypeTextOfficial ELSE TypeTextProxy,
     ms |-> Round0(r.latency)]

(* save_results_to_files: the store after the in-place sorts *)
saved_store(res) ==
    [c \in DOMAIN res |->
        IF c \in Range(TARGET_COUNTRIES) THEN sort_by_latency(res[c]) ELSE res[c]]
(* a variant of country_lines that writes the whole list *)
country_lines_all(res, c) ==
    LET ip_results == sort_by_latency(Get(res, c))
    IN  [i \in 1..Len(ip_results) |-> to_display_format(ip_results[i])]
(* save_results_to_files: the lines written for one country *)
country_lines(res, c) ==
    LET ip_results == sort_by_latency(Get(res, c))
        target_count == GetCount(target_counts, c)
        kept == IF target_count > 0
                THEN SubSeq(ip_results, 1, Min(target_count, Len(ip_results)))
                ELSE ip_results
    IN  [i \in 1..Len(kept) |-> to_display_format(kept[i])]
(* a variant of saved_files that writes no file *)
saved_files_none(res, old) == old
(* save_results_to_files: the country files after the call *)
saved_files(res, old) ==
    LET written == {c \in Range(TARGET_COUNTRIES) : Get(res, c) # <<>>}
    IN  [c \in DOMAIN old \cup written |->
            IF c \in written THEN country_lines(res, c) ELSE old[c]]
RECURSIVE SumCounts(_, _)
SumCounts(cs, res) ==
    IF cs = <<>> THEN 0 ELSE Len(Get(res, Head(cs))) + SumCounts(Tail(cs), res)
(* save_results_to_files: summary.txt *)
saved_summary(res) ==
    [counts |-> [c \in {k \in Range(TARGET_COUNTRIES) : Get(res, k) # <<>>} |->
                    Len(res[c])],
     total |-> SumCounts(TARGET_COUNTRIES, res)]

(* ------------------------------ actions -------------------------------- *)
CidrIdle == [pc |-> "idle"]
MergeIdle == [pc |-> "idle"]
PoolIdle == [pc |-> "idle"]
CallIdle == [pc |-> "idle"]

Init ==
    /\ pc = "start"
    /\ ips \in Pools
    /\ concurrent \in 1..MaxBatch
    /\ max_concurrent = concurrent
    /\ target_counts \in TargetChoices
    /\ max_latency = MAX_LATENCY
    /\ batch_index = 0
    /\ tasks = <<>>
    /\ results = EmptyDict
    /\ all_results = EmptyDict
    /\ aliased = FALSE
    /\ batch_results = EmptyDict
    /\ completed_counts = EmptyDict
    /\ should_stop = FALSE
    /\ files = EmptyDict
    /\ summary = None
    /\ dialed = {}
    /\ cidr = CidrIdle
    /\ merge = MergeIdle
    /\ pool = PoolIdle
    /\ call = CallIdle

(* a variant of Start that lacks the check of the pool *)
Start_unchecked ==
    /\ pc = "start"
    /\ pc' = "loop"
    /\ UNCHANGED <<ips, concurrent, max_concurrent, target_counts, max_latency, batch_index, tasks,
                   results, all_results, aliased, batch_results, completed_counts,
                   should_stop, files, summary, dialed, cidr, merge, pool, call>>

(* main: the pool is back; an empty pool ends the run *)
Start ==
    /\ pc = "start"
    /\ pc' = IF ips = <<>> THEN "aborted" ELSE "loop"
    /\ UNCHANGED <<ips, concurrent, max_concurrent, target_counts, max_latency, batch_index, tasks,
                   results, all_results, aliased, batch_results, completed_counts,
                   should_stop, files, summary, dialed, cidr, merge, pool, call>>

(* main and test_ips: slice the batch, create its tasks and gather them *)
Dispatch ==
    /\ pc = "loop"
    /\ tasks' = [i \in 1..Len(batch_ips) |-> NewTask]
    /\ pc' = "probing"
    /\ UNCHANGED <<ips, concurrent, max_concurrent, target_counts, max_latency, batch_index,
                   results, all_results, aliased, batch_results, completed_counts,
                   should_stop, files, summary, dialed, cidr, merge, pool, call>>

InFlight == Cardinality({i \in 1..Len(tasks) : tasks[i].st = "running"})

(* a variant of Acquire that lacks the semaphore *)
Acquire_unbounded(i) ==
    /\ pc = "probing"
    /\ tasks[i].st = "waiting"
    /\ tasks' = [tasks EXCEPT ![i].st = "running"]
    /\ UNCHANGED <<pc, ips, concurrent, max_concurrent, target_counts, max_latency, batch_index,
                   results, all_results, aliased, batch_results, completed_counts,
                   should_stop, files, summary, dialed, cidr, merge, pool, call>>

(* test_with_semaphore: a task enters the semaphore *)
Acquire(i) ==
    /\ pc = "probing"
    /\ tasks[i].st = "waiting"
    /\ InFlight < max_concurrent
    /\ tasks' = [tasks EXCEPT ![i].st = "running"]
    /\ UNCHANGED <<pc, ips, concurrent, max_concurrent, target_counts, max_latency, batch_index,
                   results, all_results, aliased, batch_results, completed_counts,
                   should_stop, files, summary, dialed, cidr, merge, pool, call>>

(* a variant of Attempt that stores a result as soon as the probe has it *)
Attempt_storing(i) ==
    /\ pc = "probing"
    /\ tasks[i].st = "running"
    /\ LET port == TARGET_PORTS[tasks[i].pi]
           parsed_ip == _parse_ip_format(batch_ips[i], port)
       IN  \E resp \in Responses(parsed_ip.host) :
               LET t == test_ip([tasks[i] EXCEPT !.result =
                                    _single_test(parsed_ip.host, parsed_ip.port, resp)],
                                port)
               IN  /\ tasks' = [tasks EXCEPT ![i] = t]
                   /\ results' = IF t.ret # None
                                 THEN Put(results, t.ret[1].country,
                                          Append(Get(results, t.ret[1].country),
                                                 t.ret[1]))
                                 ELSE results
                   /\ dialed' = dialed \cup {<<parsed_ip.host, parsed_ip.port>>}
    /\ UNCHANGED <<pc, ips, concurrent, max_concurrent, target_counts, max_latency, batch_index,
                   all_results, aliased, batch_results, completed_counts,
                   should_stop, files, summary, cidr, merge, pool, call>>

(* test_ip: one _single_test and what follows it up to the next await *)
Attempt(i) ==
    /\ pc = "probing"
    /\ tasks[i].st = "running"
    /\ LET port == TARGET_PORTS[tasks[i].pi]
           parsed_ip == _parse_ip_format(batch_ips[i], port)
       IN  \E resp \in Responses(parsed_ip.host) :
               /\ tasks' = [tasks EXCEPT ![i] =
                      test_ip([tasks[i] EXCEPT !.result =
                                  _single_test(parsed_ip.host, parsed_ip.port, resp)],
                              port)]
               /\ dialed' = dialed \cup {<<parsed_ip.host, parsed_ip.port>>}
    /\ UNCHANGED <<pc, ips, concurrent, max_concurrent, target_counts, max_latency, batch_index,
                   results, all_results, aliased, batch_results, completed_counts,
                   should_stop, files, summary, cidr, merge, pool, call>>

(* a variant of gathered that is content with the first probe to finish *)
gathered_first_completed ==
    tasks = <<>> \/ \E i \in 1..Len(tasks) : tasks[i].st = "done"
(* asyncio.gather over the tasks, return_exceptions=True, has returned *)
gathered == \A i \in 1..Len(tasks) : tasks[i].st = "done"

(* test_ips after gather, then the rest of the loop body of main *)
Evaluate ==
    /\ pc = "probing"
    /\ gathered
    /\ \E tested \in {test_ips(valid_results(tasks), results, EmptyDict,
                                completed_counts)} :
       \E merged \in {merge_batch(tested.results, tested.batch_results)} :
       \E stop \in {_should_stop_testing("", merged)} :
           /\ batch_results' = tested.batch_results
           /\ completed_counts' = tested.completed_counts
           /\ all_results' = saved_store(merged)
           /\ results' = saved_store(merged)
           /\ aliased' = TRUE
           /\ should_stop' = stop
           /\ files' = saved_files(merged, files)
           /\ summary' = Some(saved_summary(merged))
           /\ IF stop \/ batch_index + 1 >= total_batches
              THEN pc' = "final" /\ batch_index' = batch_index
              ELSE pc' = "loop" /\ batch_index' = batch_index + 1
    /\ tasks' = <<>>
    /\ UNCHANGED <<ips, concurrent, max_concurrent, target_counts, max_latency, dialed, cidr, merge, pool, call>>

(* main: the final save *)
Final ==
    /\ pc = "final"
    /\ \E saved \in {saved_store(all_results)} :
       \E written \in {saved_files(all_results, files)} :
           /\ results' = saved
           /\ all_results' = saved
           /\ files' = written
           /\ summary' = Some(saved_summary(all_results))
    /\ pc' = "done"
    /\ UNCHANGED <<ips, concurrent, max_concurrent, target_counts, max_latency, batch_index, tasks,
                   aliased, batch_results, completed_counts, should_stop, dialed, cidr, merge, pool, call>>

Next ==
    \/ Start
    \/ Dispatch
    \/ \E i \in 1..Len(tasks) : Acquire(i)
    \/ \E i \in 1..Len(tasks) : Attempt(i)
    \/ Evaluate
    \/ Final

Spec == Init /\ [][Next]_vars

(* main under the event loop of asyncio: a coroutine that can go on is run, *)
(* and every await of a GET ends, by its answer or by its timeout          *)
InitLive ==
    /\ Init
    /\ concurrent <= 2
    /\ target_counts = [c \in Range(TARGET_COUNTRIES) |-> 1]
SpecLive == InitLive /\ [][Next]_vars /\ WF_vars(Next)

(* test_ips given batches wider than the semaphore: a tester built with a *)
(* max_concurrent of its own, driven in batches of MaxBatch               *)
InitTestIps ==
    /\ pc = "start"
    /\ ips \in Pools
    /\ concurrent = MaxBatch
    /\ max_concurrent \in 1..MaxBatch
    /\ target_counts = [c \in Range(TARGET_COUNTRIES) |-> 1]
    /\ max_latency = MAX_LATENCY
    /\ batch_index = 0
    /\ tasks = <<>>
    /\ results = EmptyDict
    /\ all_results = EmptyDict
    /\ aliased = FALSE
    /\ batch_results = EmptyDict
    /\ completed_counts = EmptyDict
    /\ should_stop = FALSE
    /\ files = EmptyDict
    /\ summary = None
    /\ dialed = {}
    /\ cidr = CidrIdle
    /\ merge = MergeIdle
    /\ pool = PoolIdle
    /\ call = CallIdle

SpecTestIps == InitTestIps /\ [][Next]_vars

(* ------------------- _generate_ips_from_cidr --------------------------- *)
FromHiLo(hi, lo) == <<hi \div 256, hi % 256, lo \div 256, lo % 256>>
(* ipaddress.IPv4Network(cidr, strict=False).network_address *)
network_address(address, prefixlen) ==
    IF prefixlen <= 16
    THEN FromHiLo((Hi(address) \div 2^(16 - prefixlen)) * 2^(16 - prefixlen), 0)
    ELSE FromHiLo(Hi(address),
                  (Lo(address) \div 2^(32 - prefixlen)) * 2^(32 - prefixlen))
num_addresses(prefixlen) == 2^(32 - prefixlen)
(* network.network_address + random_offset *)
AddOffset(address, offset) ==
    LET lo == Lo(address) + offset
    IN  FromHiLo(Hi(address) + lo \div 65536, lo % 65536)

(* the CIDR lines and the counts the model draws from *)
CidrAddresses == {Addr(198, 51, 100, 0), Addr(104, 16, 0, 5)}
Cidrs ==
    {[address |-> a, prefixlen |-> p] :
        a \in CidrAddresses, p \in (32 - MaxHostBits)..32}

(* a variant of random_offsets that can draw offset 0 *)
random_offsets_from_zero(max_hosts) == 0..max_hosts
(* random.randint(1, max_hosts) *)
random_offsets(max_hosts) == 1..max_hosts

(* _generate_ips_from_cidr up to its loop *)
CidrEnter(c, count) ==
    LET network == network_address(c.address, c.prefixlen)
        max_hosts == num_addresses(c.prefixlen) - 2
    IN  [pc |-> IF max_hosts <= 0 THEN "return" ELSE "loop",
         address |-> c.address, prefixlen |-> c.prefixlen, count |-> count,
         network |-> network, max_hosts |-> max_hosts,
         actual_count |-> Min(count, max_hosts),
         ips |-> {}, attempts |-> 0, result |-> {}]

(* main is not running *)
MainIdle ==
    /\ pc = "idle"
    /\ ips = <<>>
    /\ concurrent = 1
    /\ max_concurrent = 1
    /\ target_counts = [c \in Range(TARGET_COUNTRIES) |-> 1]
    /\ max_latency = MAX_LATENCY
    /\ batch_index = 0
    /\ tasks = <<>>
    /\ results = EmptyDict
    /\ all_results = EmptyDict
    /\ aliased = FALSE
    /\ batch_results = EmptyDict
    /\ completed_counts = EmptyDict
    /\ should_stop = FALSE
    /\ files = EmptyDict
    /\ summary = None
    /\ dialed = {}

InitCidr ==
    /\ MainIdle
    /\ cidr \in {CidrEnter(c, count) : c \in Cidrs, count \in 1..MaxCount}
    /\ merge = MergeIdle
    /\ pool = PoolIdle
    /\ call = CallIdle

(* a variant of CidrDraw that does not count the draw *)
CidrDraw_uncounted ==
    /\ cidr.pc = "loop"
    /\ Cardinality(cidr.ips) < cidr.actual_count
    /\ cidr.attempts < cidr.actual_count * 10
    /\ \E random_offset \in random_offsets(cidr.max_hosts) :
           cidr' = [cidr EXCEPT
                       !.ips = @ \cup {AddOffset(cidr.network, random_offset)}]
    /\ UNCHANGED <<main_vars, merge, pool, call>>

(* one turn of the while loop: a draw *)
CidrDraw ==
    /\ cidr.pc = "loop"
    /\ Cardinality(cidr.ips) < cidr.actual_count
    /\ cidr.attempts < cidr.actual_count * 10
    /\ \E random_offset \in random_offsets(cidr.max_hosts) :
           cidr' = [cidr EXCEPT
                       !.ips = @ \cup {AddOffset(cidr.network, random_offset)},
                       !.attempts = @ + 1]
    /\ UNCHANGED <<main_vars, merge, pool, call>>

(* the while loop ends: return list(ips) *)
CidrReturn ==
    /\ cidr.pc = "loop"
    /\ ~(/\ Cardinality(cidr.ips) < cidr.actual_count
         /\ cidr.attempts < cidr.actual_count * 10)
    /\ cidr' = [cidr EXCEPT !.pc = "return", !.result = cidr.ips]
    /\ UNCHANGED <<main_vars, merge, pool, call>>

NextCidr == CidrDraw \/ CidrReturn

SpecCidr == InitCidr /\ [][NextCidr]_vars

(* the call as it runs: the loop goes on while it can *)
SpecCidrLive == InitCidr /\ [][NextCidr]_vars /\ WF_vars(NextCidr)

(* ----------------------- merge_results.py ------------------------------ *)
(* A line of a result file: a result line as to_display_format writes it, *)
(* a comment, a blank line, or text of no known form.                     *)
CommentLine == [kind |-> "comment"]
BlankLine == [kind |-> "blank"]
GarbageLine == [kind |-> "garbage"]
ResultLine(ip, port, country, type_text, ms) ==
    [kind |-> "result", ip |-> ip, port |-> port, country |-> country,
     type_text |-> type_text, ms |-> ms]

(* [A-Z]{2}: the two-letter upper-case codes, those of the colo table    *)
(* standing for all of them                                               *)
TwoUpperCase == {colo_to_country[c] : c \in DOMAIN colo_to_country}
(* parse_ip_line: the pattern matches result lines with a two-letter      *)
(* country; anything else gives None                                      *)
parse_ip_line(line) ==
    IF /\ line.kind = "result"
       /\ line.country \in TwoUpperCase
       /\ line.type_text \in {TypeTextOfficial, TypeTextProxy}
    THEN Some([ip |-> line.ip, port |-> line.port,
               latency |-> line.ms * LatScale, colo |-> <<>>,
               country |-> line.country,
               type |-> IF line.type_text = TypeTextOfficial
                        THEN "official" ELSE "proxy"])
    ELSE None

(* a variant of merge_lines that lacks the seen_ips check *)
RECURSIVE merge_lines_all(_, _, _)
merge_lines_all(lines, country, acc) ==
    IF lines = <<>> THEN acc
    ELSE LET line == Head(lines)
             result == parse_ip_line(line)
         IN  IF line.kind \in {"blank", "comment"} \/ result = None
             THEN merge_lines_all(Tail(lines), country, acc)
             ELSE merge_lines_all(Tail(lines), country,
                      [country_results |->
                           Put(acc.country_results, country,
                               Append(Get(acc.country_results, country),
                                      result[1])),
                       seen_ips |-> acc.seen_ips
                                    \cup {<<result[1].ip, result[1].port>>}])

(* a variant of merge_lines that gives the file up at a line it cannot    *)
(* parse                                                                  *)
RECURSIVE merge_lines_abort(_, _, _)
merge_lines_abort(lines, country, acc) ==
    IF lines = <<>> THEN acc
    ELSE LET line == Head(lines)
             result == parse_ip_line(line)
         IN  IF line.kind \in {"blank", "comment"}
             THEN merge_lines_abort(Tail(lines), country, acc)
             ELSE IF result = None THEN acc
             ELSE LET ip_key == <<result[1].ip, result[1].port>>
                  IN  IF ip_key \notin acc.seen_ips
                      THEN merge_lines_abort(Tail(lines), country,
                               [country_results |->
                                    Put(acc.country_results, country,
                                        Append(Get(acc.country_results, country),
                                               result[1])),
                                seen_ips |-> acc.seen_ips \cup {ip_key}])
                      ELSE merge_lines_abort(Tail(lines), country, acc)

(* merge_batch_results: the loop over the lines of one country file; acc  *)
(* is country_results and seen_ips                                        *)
RECURSIVE merge_lines(_, _, _)
merge_lines(lines, country, acc) ==
    IF lines = <<>> THEN acc
    ELSE LET line == Head(lines)
             result == parse_ip_line(line)
         IN  IF line.kind \in {"blank", "comment"} \/ result = None
             THEN merge_lines(Tail(lines), country, acc)
             ELSE LET ip_key == <<result[1].ip, result[1].port>>
                  IN  IF ip_key \notin acc.seen_ips
                      THEN merge_lines(Tail(lines), country,
                               [country_results |->
                                    Put(acc.country_results, country,
                                        Append(Get(acc.country_results, country),
                                               result[1])),
                                seen_ips |-> acc.seen_ips \cup {ip_key}])
                      ELSE merge_lines(Tail(lines), country, acc)

(* merge_batch_results: the loop over the country files of one batch      *)
(* directory, in the order glob yields them                               *)
RECURSIVE merge_dir(_, _, _)
merge_dir(order, dir, acc) ==
    IF order = <<>> THEN acc
    ELSE merge_dir(Tail(order), dir, merge_lines(dir[Head(order)], Head(order), acc))

(* the orders in which glob can yield the files of a directory *)
GlobOrders(dir) ==
    {o \in [1..Cardinality(DOMAIN dir) -> DOMAIN dir] :
        \A i, j \in DOMAIN o : i # j => o[i] # o[j]}

(* merge_batch_results: the merged file of one country *)
merged_file(country, country_results, batch_count) ==
    LET sorted == sort_by_latency(country_results[country])
    IN  <<CommentLine, CommentLine, CommentLine, CommentLine, BlankLine>>
        \o [i \in 1..Len(sorted) |-> to_display_format(sorted[i])]
RECURSIVE SumLens(_, _)
SumLens(keys, d) ==
    IF keys = {} THEN 0
    ELSE LET k == CHOOSE x \in keys : TRUE
         IN  Len(d[k]) + SumLens(keys \ {k}, d)

(* the result files the model draws from: two measurements of one US      *)
(* endpoint, a second US endpoint, the first endpoint as measured for JP, *)
(* and a line of no known form                                            *)
MergeCountries == {"US", "JP"}
LineChoices(country) ==
    IF country = "US"
    THEN {ResultLine(Addr(1, 2, 3, 4), 443, "US", TypeTextOfficial, 40),
          ResultLine(Addr(1, 2, 3, 4), 443, "US", TypeTextOfficial, 25),
          ResultLine(Addr(1, 2, 3, 5), 443, "US", TypeTextProxy, 30),
          GarbageLine}
    ELSE {ResultLine(Addr(1, 2, 3, 4), 443, "JP", TypeTextOfficial, 30)}
FileChoices(country) ==
    UNION {[1..n -> LineChoices(country)] : n \in 0..MaxLines}
RECURSIVE SumLines(_, _)
SumLines(keys, d) ==
    IF keys = {} THEN 0
    ELSE LET k == CHOOSE x \in keys : TRUE
         IN  Len(d[k]) + SumLines(keys \ {k}, d)
(* a batch directory holds a US file, perhaps a JP file, MaxLines lines   *)
DirChoices ==
    {d \in [{"US"} -> FileChoices("US")]
           \cup {[c \in MergeCountries |-> IF c = "US" THEN u ELSE j] :
                    u \in FileChoices("US"), j \in FileChoices("JP")} :
        SumLines(DOMAIN d, d) <= MaxLines}
BatchDirChoices == UNION {[1..n -> DirChoices] : n \in 0..MaxDirs}

MergeEnter(batch_dirs) ==
    [pc |-> "call", batch_dirs |-> batch_dirs, next |-> 1,
     country_results |-> EmptyDict, seen_ips |-> {},
     files |-> EmptyDict, summary |-> None]

InitMerge ==
    /\ MainIdle
    /\ cidr = CidrIdle
    /\ merge \in {MergeEnter(b) : b \in BatchDirChoices}
    /\ pool = PoolIdle
    /\ call = CallIdle

(* merge_batch_results: the batch directories are listed; none ends the   *)
(* call                                                                   *)
MergeStart ==
    /\ merge.pc = "call"
    /\ merge' = [merge EXCEPT
                    !.pc = IF merge.batch_dirs = <<>> THEN "done" ELSE "dirs"]
    /\ UNCHANGED <<main_vars, cidr, pool, call>>

(* merge_batch_results: one turn of the loop over the batch directories   *)
MergeDir ==
    /\ merge.pc = "dirs"
    /\ merge.next <= Len(merge.batch_dirs)
    /\ \E order \in GlobOrders(merge.batch_dirs[merge.next]) :
           LET acc == merge_dir(order, merge.batch_dirs[merge.next],
                                [country_results |-> merge.country_results,
                                 seen_ips |-> merge.seen_ips])
           IN  merge' = [merge EXCEPT !.next = @ + 1,
                                      !.country_results = acc.country_results,
                                      !.seen_ips = acc.seen_ips]
    /\ UNCHANGED <<main_vars, cidr, pool, call>>

(* merge_batch_results: sort, write the country files and the summary     *)
MergeWrite ==
    /\ merge.pc = "dirs"
    /\ merge.next > Len(merge.batch_dirs)
    /\ LET written == {c \in DOMAIN merge.country_results :
                          merge.country_results[c] # <<>>}
       IN  merge' = [merge EXCEPT
               !.pc = "done",
               !.country_results =
                   [c \in DOMAIN @ |-> sort_by_latency(@[c])],
               !.files =
                   [c \in written |->
                       merged_file(c, merge.country_results,
                                   Len(merge.batch_dirs))],
               !.summary =
                   Some([counts |-> [c \in written |->
                                        Len(merge.country_results[c])],
                         total |-> SumLens(written, merge.country_results)])]
    /\ UNCHANGED <<main_vars, cidr, pool, call>>

NextMerge == MergeStart \/ MergeDir \/ MergeWrite

SpecMerge == InitMerge /\ [][NextMerge]_vars

(* ------------- a result written as a line and read back ---------------- *)
(* the results the model writes: latencies of 29.5, 30.0, 30.5, 31.5,     *)
(* 80.6 and 1999.6 ms, a country of two letters or UNKNOWN                *)
FormatLatencies == {295, 300, 305, 315, 806, 19996}
FormatResults ==
    {IPResult([ip |-> a, port |-> p, latency |-> l, colo |-> <<"L", "A", "X">>,
               country |-> c, type |-> t]) :
        a \in {Addr(1, 1, 1, 1), Addr(10, 0, 0, 2)}, p \in {443, 8443},
        l \in FormatLatencies, c \in {"US", "JP", "UNKNOWN"},
        t \in {"official", "proxy"}}
FormatEnter(r) == [pc |-> "call", self |-> r, line |-> None, result |-> None]

InitFormat ==
    /\ MainIdle
    /\ cidr = CidrIdle
    /\ merge = MergeIdle
    /\ pool = PoolIdle
    /\ call \in {FormatEnter(r) : r \in FormatResults}

(* save_results_to_files writes the line of a result *)
FormatWrite ==
    /\ call.pc = "call"
    /\ call' = [call EXCEPT !.pc = "written",
                            !.line = Some(to_display_format(call.self))]
    /\ UNCHANGED <<main_vars, cidr, merge, pool>>

(* merge_batch_results reads the line back *)
FormatRead ==
    /\ call.pc = "written"
    /\ call' = [call EXCEPT !.pc = "parsed",
                            !.result = parse_ip_line(call.line[1])]
    /\ UNCHANGED <<main_vars, cidr, merge, pool>>

NextFormat == FormatWrite \/ FormatRead

SpecFormat == InitFormat /\ [][NextFormat]_vars

(* ---------------------- _single_test on its own ------------------------ *)
(* 2001:db8::1, an echoed address that holds colons *)
ClientAddr6 == <<8193, 3512, 0, 0, 0, 0, 0, 1>>
TraceHosts == {Addr(1, 1, 1, 1), Addr(1, 1, 1, 2), Addr(10, 0, 0, 2)}
(* what the GET can give: any status, with or without colo, echoing no    *)
(* address, the dialed one, another IPv4 address or an IPv6 address       *)
TraceResponses(ip) ==
    {[status |-> st, latency |-> l, colo |-> co, rip |-> e] :
        st \in {0, 200, 403}, l \in {300, 20001},
        co \in {<<>>, <<"L", "A", "X">>},
        e \in {<<>>, ip, ClientAddr, Addr(1, 1, 1, 1), ClientAddr6}}
TraceEnter(ip, port, resp) ==
    [pc |-> "get", ip |-> ip, port |-> port, resp |-> resp, result |-> None]

InitTrace ==
    /\ MainIdle
    /\ cidr = CidrIdle
    /\ merge = MergeIdle
    /\ pool = PoolIdle
    /\ call \in {TraceEnter(ip, port, resp) :
                    ip \in TraceHosts, port \in {443, 8443},
                    resp \in UNION {TraceResponses(h) : h \in TraceHosts}}

(* _single_test: the response is in, the result is returned *)
TraceReturn ==
    /\ call.pc = "get"
    /\ call' = [call EXCEPT !.pc = "return",
                            !.result = _single_test(call.ip, call.port, call.resp)]
    /\ UNCHANGED <<main_vars, cidr, merge, pool>>

NextTrace == TraceReturn

SpecTrace == InitTrace /\ [][NextTrace]_vars

(* ---------------------------- get_all_ips ------------------------------ *)
(* Four of the twelve sources, in their order: a source of prefixes, a    *)
(* source of addresses, the proxy source and a source of an AS.           *)
IP_SOURCES == <<"official", "bestali", "proxyip", "as13335">>
ip_sources == SubSeq(IP_SOURCES, 1, Min(MaxSources, Len(IP_SOURCES)))

(* A line of a fetched text. *)
IpLine(host) == [kind |-> "ip", host |-> host, port |-> 0, prefixlen |-> 32]
CidrLine(address, prefixlen) ==
    [kind |-> "cidr", host |-> address, port |-> 0, prefixlen |-> prefixlen]
IpPortLine(host, port) ==
    [kind |-> "ipport", host |-> host, port |-> port, prefixlen |-> 32]
JunkLine == [kind |-> "junk", host |-> <<>>, port |-> 0, prefixlen |-> 0]
(* A candidate of the pool: the string "a.b.c.d" (port 0) or              *)
(* "a.b.c.d:port".                                                        *)
Candidate(host, port) == [host |-> host, port |-> port]

(* The built-in list of prefixes that stands in for a text that came with *)
(* a status other than 200, cut to one prefix of two hosts.               *)
DEFAULT_CIDRS == <<CidrLine(Addr(198, 51, 100, 0), 30)>>

(* what a source can hold: nothing or one line *)
SourceLines(ip_source) ==
    IF ip_source = "proxyip"
    THEN {IpPortLine(Addr(1, 1, 1, 1), TARGET_PORTS[1]),
          IpPortLine(Addr(1, 1, 1, 1), 443), IpLine(Addr(1, 1, 1, 2)), JunkLine}
    ELSE {IpLine(Addr(1, 1, 1, 1)), CidrLine(Addr(198, 51, 100, 0), 30), JunkLine}
(* what session.get can give: status 0 is an exception raised *)
Fetches(ip_source) ==
    {[status |-> st, text |-> t] :
        st \in {0, 200, 403},
        t \in {<<>>} \cup {<<l>> : l \in SourceLines(ip_source)}}

(* _generate_ips_from_cidr: the lists it can return, as sets: none when   *)
(* the prefix has no usable host, else 1 to min(count, max_hosts) of its  *)
(* hosts                                                                  *)
cidr_returns(line, count) ==
    LET max_hosts == num_addresses(line.prefixlen) - 2
        network == network_address(line.host, line.prefixlen)
    IN  IF line.kind = "junk" \/ max_hosts <= 0
        THEN {{}}
        ELSE {{Candidate(AddOffset(network, o), 0) : o \in S} :
                 S \in {T \in SUBSET random_offsets(max_hosts) :
                           T # {} /\ Cardinality(T) <= Min(count, max_hosts)}}

(* _generate_ips_from_cidrs: every line is taken as a prefix (an address  *)
(* is a /32); the cut at max_ips is beyond what these texts give          *)
RECURSIVE _generate_ips_from_cidrs(_)
_generate_ips_from_cidrs(cidrs) ==
    IF cidrs = <<>> THEN {{}}
    ELSE {a \cup b : a \in cidr_returns(Head(cidrs), 10),
                     b \in _generate_ips_from_cidrs(Tail(cidrs))}

(* _get_ips_from_source: the loop over the lines of a list of addresses   *)
RECURSIVE valid_ips(_, _)
valid_ips(lines, count) ==
    IF lines = <<>> THEN {{}}
    ELSE LET line == Head(lines)
             here == IF line.kind = "ip" THEN {{Candidate(line.host, 0)}}
                     ELSE IF line.kind = "cidr" THEN cidr_returns(line, count)
                     ELSE {{}}
         IN  {a \cup b : a \in here, b \in valid_ips(Tail(lines), count)}

(* _parse_proxy_ip_line: None is {} *)
_parse_proxy_ip_line(line, target_port) ==
    LET port == IF line.kind = "ipport" THEN line.port ELSE 443
    IN  IF line.kind \in {"ip", "ipport"} /\ port = target_port
        THEN {Candidate(line.host, port)}
        ELSE {}
(* _get_proxy_ips *)
_get_proxy_ips(fetch, target_port) ==
    IF fetch.status # 200 THEN {}
    ELSE UNION {_parse_proxy_ip_line(fetch.text[i], target_port) :
                   i \in 1..Len(fetch.text)}

(* a variant of _get_ips_from_source that gives nothing for a status      *)
(* other than 200                                                         *)
_get_ips_from_source_skip(ip_source, fetch) ==
    IF fetch.status # 200 THEN {{}}
    ELSE IF ip_source = "proxyip" THEN {_get_proxy_ips(fetch, TARGET_PORTS[1])}
    ELSE IF ip_source = "bestali" THEN valid_ips(fetch.text, 5)
    ELSE IF ip_source = "as13335" THEN valid_ips(fetch.text, 10)
    ELSE _generate_ips_from_cidrs(fetch.text)

(* _get_ips_from_source: the lists it can return for what the fetch gave, *)
(* as sets                                                                *)
_get_ips_from_source(ip_source, fetch) ==
    IF fetch.status = 0 THEN {{}}
    ELSE IF ip_source = "proxyip" THEN {_get_proxy_ips(fetch, TARGET_PORTS[1])}
    ELSE LET text == IF fetch.status = 200 THEN fetch.text ELSE DEFAULT_CIDRS
         IN  IF ip_source = "bestali" THEN valid_ips(text, 5)
             ELSE IF ip_source = "as13335" THEN valid_ips(text, 10)
             ELSE _generate_ips_from_cidrs(text)

(* a variant of over_ceiling that never stops the loop *)
never_over_ceiling(n) == FALSE
(* get_all_ips: len(all_ips) > 10000, the ceiling scaled down *)
over_ceiling(n) == n > Ceiling

PoolEnter ==
    [pc |-> "loop", next |-> 1, all_ips |-> {}, log |-> <<>>, result |-> <<>>]

InitPool ==
    /\ MainIdle
    /\ cidr = CidrIdle
    /\ merge = MergeIdle
    /\ pool = PoolEnter
    /\ call = CallIdle

(* get_all_ips: one turn of the loop over the sources; log keeps what the *)
(* turn was given and what it added                                       *)
PoolSource ==
    /\ pool.pc = "loop"
    /\ pool.next <= Len(ip_sources)
    /\ LET ip_source == ip_sources[pool.next]
       IN  \E fetch \in Fetches(ip_source) :
           \E got \in _get_ips_from_source(ip_source, fetch) :
               LET all_ips == pool.all_ips \cup got
               IN  pool' = [pool EXCEPT
                       !.all_ips = all_ips,
                       !.log = Append(@, [ip_source |-> ip_source,
                                          fetch |-> fetch, ips |-> got,
                                          before |-> pool.all_ips]),
                       !.next = @ + 1,
                       !.pc = IF over_ceiling(Cardinality(all_ips))
                                 \/ pool.next = Len(ip_sources)
                              THEN "shuffle" ELSE "loop"]
    /\ UNCHANGED <<main_vars, cidr, merge, call>>

(* get_all_ips: list(all_ips), random.shuffle, return *)
PoolShuffle ==
    /\ pool.pc = "shuffle"
    /\ \E ip_list \in [1..Cardinality(pool.all_ips) -> pool.all_ips] :
           /\ \A i, j \in DOMAIN ip_list : i # j => ip_list[i] # ip_list[j]
           /\ pool' = [pool EXCEPT !.pc = "return", !.result = ip_list]
    /\ UNCHANGED <<main_vars, cidr, merge, call>>

NextPool == PoolSource \/ PoolShuffle

SpecPool == InitPool /\ [][NextPool]_vars

(* ------------------------- test_ip on its own -------------------------- *)
(* the stores a call of test_ip can find: empty, or the US quota met       *)
ProbeStores ==
    {EmptyDict,
     [c \in {"US"} |->
         <<IPResult([ip |-> Addr(1, 1, 1, 9), port |-> TARGET_PORTS[1],
                     latency |-> 300, colo |-> <<"L", "A", "X">>,
                     country |-> "US", type |-> "official"])>>]}
ProbeEnter(ip) ==
    [pc |-> "test_ip", ip |-> ip, t |-> [NewTask EXCEPT !.st = "running"],
     log |-> <<>>]
(* test_ip: the else branch of the attempt loop sleeps before a retry *)
sleeps(result, attempt) == result = None /\ attempt < 2

InitProbe ==
    /\ pc = "idle"
    /\ ips = <<>>
    /\ concurrent = 1
    /\ max_concurrent = 1
    /\ target_counts = [c \in Range(TARGET_COUNTRIES) |-> 1]
    /\ max_latency = MAX_LATENCY
    /\ batch_index = 0
    /\ tasks = <<>>
    /\ results \in ProbeStores
    /\ all_results = EmptyDict
    /\ aliased = FALSE
    /\ batch_results = EmptyDict
    /\ completed_counts = EmptyDict
    /\ should_stop = FALSE
    /\ files = EmptyDict
    /\ summary = None
    /\ dialed = {}
    /\ cidr = CidrIdle
    /\ merge = MergeIdle
    /\ pool = PoolIdle
    /\ call \in {ProbeEnter(PoolEntry(i)) : i \in 1..3}

(* test_ip: one _single_test and what follows it up to the next await;    *)
(* log keeps the calls of _single_test and of asyncio.sleep               *)
ProbeAttempt ==
    /\ call.pc = "test_ip"
    /\ LET port == target_ports[call.t.pi]
           parsed_ip == _parse_ip_format(call.ip, port)
       IN  \E resp \in Responses(parsed_ip.host) :
               LET result == _single_test(parsed_ip.host, parsed_ip.port, resp)
                   t == test_ip([call.t EXCEPT !.result = result], port)
               IN  call' = [call EXCEPT
                       !.t = t,
                       !.log = Append(@, [ev |-> "single_test",
                                          port |-> parsed_ip.port,
                                          attempt |-> call.t.att,
                                          result |-> result]),
                       !.pc = IF sleeps(result, call.t.att) THEN "sleep"
                              ELSE IF t.st = "done" THEN "return"
                              ELSE "test_ip"]
    /\ UNCHANGED <<main_vars, cidr, merge, pool>>

(* test_ip: await asyncio.sleep(0.1) *)
ProbeSleep ==
    /\ call.pc = "sleep"
    /\ call' = [call EXCEPT
                    !.pc = "test_ip",
                    !.log = Append(@, [ev |-> "sleep", port |-> 0,
                                       attempt |-> call.t.att - 1,
                                       result |-> None])]
    /\ UNCHANGED <<main_vars, cidr, merge, pool>>

NextProbe == ProbeAttempt \/ ProbeSleep

SpecProbe == InitProbe /\ [][NextProbe]_vars

(* ---- test_ip with a configured port list ---- *)

(* the --ports argument split at the commas: the default list, and lists  *)
(* of two ports in either order                                           *)
PortLists == {TARGET_PORTS, TARGET_PORTS \o <<2053>>, <<2053>> \o TARGET_PORTS}

(* the candidates given to test_ip: a bare address, or address:port as    *)
(* the proxy source keeps them, with the first port of the list           *)
PortCandidates(ports) ==
    {[host |-> Addr(1, 1, 1, 1), port |-> p] : p \in {0, ports[1]}}

PortsEnter(ip, ports) ==
    [pc |-> "test_ip", ip |-> ip, t |-> [NewTask EXCEPT !.st = "running"],
     log |-> <<>>, ports |-> ports]

InitPorts ==
    /\ pc = "idle"
    /\ ips = <<>>
    /\ concurrent = 1
    /\ max_concurrent = 1
    /\ target_counts = [c \in Range(TARGET_COUNTRIES) |-> 1]
    /\ max_latency = MAX_LATENCY
    /\ batch_index = 0
    /\ tasks = <<>>
    /\ results = EmptyDict
    /\ all_results = EmptyDict
    /\ aliased = FALSE
    /\ batch_results = EmptyDict
    /\ completed_counts = EmptyDict
    /\ should_stop = FALSE
    /\ files = EmptyDict
    /\ summary = None
    /\ dialed = {}
    /\ cidr = CidrIdle
    /\ merge = MergeIdle
    /\ pool = PoolIdle
    /\ \E ports \in PortLists : \E ip \in PortCandidates(ports) :
           call = PortsEnter(ip, ports)

SpecPorts == InitPorts /\ [][NextProbe]_vars

(* ------------------ _get_country_from_colo on its own ------------------ *)
lower(ch) ==
    IF \E i \in 1..Len(UpperCase) : UpperCase[i] = ch
    THEN LowerCase[CHOOSE i \in 1..Len(UpperCase) : UpperCase[i] = ch]
    ELSE ch
(* the region hints the model draws from: every code of the table as it   *)
(* is, in lower case, with its first letter alone in lower case, followed *)
(* by digits, cut to two letters and to one, after a blank; the empty     *)
(* hint and codes the table lacks                                         *)
ColoHints ==
    UNION {{k,
            [i \in 1..3 |-> lower(k[i])],
            <<lower(k[1]), k[2], k[3]>>,
            k \o <<"0", "1">>,
            [i \in 1..3 |-> lower(k[i])] \o <<"0", "1">>,
            SubSeq(k, 1, 2),
            SubSeq(k, 1, 1),
            <<" ">> \o k} : k \in DOMAIN colo_to_country}
    \cup {<<>>, <<"X", "X", "X">>, <<"1", "2", "3">>, <<"l", "a">>,
          <<"A", "L", "A", "X">>}
ColoEnter(colo) == [pc |-> "call", colo |-> colo, ret |-> None]

InitColo ==
    /\ MainIdle
    /\ cidr = CidrIdle
    /\ merge = MergeIdle
    /\ pool = PoolIdle
    /\ call \in {ColoEnter(colo) : colo \in ColoHints}

(* _get_country_from_colo returns *)
ColoReturn ==
    /\ call.pc = "call"
    /\ call' = [call EXCEPT !.pc = "classified",
                            !.ret = Some(_get_country_from_colo(call.colo))]
    /\ UNCHANGED <<main_vars, cidr, merge, pool>>

NextColo == ColoReturn

SpecColo == InitColo /\ [][NextColo]_vars

(* --------------- merge_batch_results over longer files ----------------- *)
(* the lines of a US file: the lines of LineChoices, a comment, and a     *)
(* result line whose country is no two-letter code                        *)
SkipLineChoices ==
    LineChoices("US")
    \cup {CommentLine,
          ResultLine(Addr(1, 2, 3, 6), 443, "UNKNOWN", TypeTextOfficial, 20)}
(* two batch directories with a US file each: up to MaxFileLines lines in *)
(* the first, up to one in the second                                     *)
SkipDirChoices ==
    {<<[c \in {"US"} |-> first], [c \in {"US"} |-> later]>> :
        first \in UNION {[1..n -> SkipLineChoices] : n \in 0..MaxFileLines},
        later \in UNION {[1..n -> SkipLineChoices] : n \in 0..1}}
SkipEnter(batch_dirs) ==
    [pc |-> "dirs", batch_dirs |-> batch_dirs, next |-> 1,
     country_results |-> EmptyDict, seen_ips |-> {}]

InitSkip ==
    /\ MainIdle
    /\ cidr = CidrIdle
    /\ merge = MergeIdle
    /\ pool = PoolIdle
    /\ call \in {SkipEnter(b) : b \in SkipDirChoices}

(* merge_batch_results: one turn of the loop over the batch directories   *)
SkipDir ==
    /\ call.pc = "dirs"
    /\ call.next <= Len(call.batch_dirs)
    /\ LET acc == merge_dir(<<"US">>, call.batch_dirs[call.next],
                            [country_results |-> call.country_results,
                             seen_ips |-> call.seen_ips])
       IN  call' = [call EXCEPT !.next = @ + 1,
                               !.country_results = acc.country_results,
                               !.seen_ips = acc.seen_ips]
    /\ UNCHANGED <<main_vars, cidr, merge, pool>>

(* merge_batch_results: the loop over the batch directories is over       *)
SkipDone ==
    /\ call.pc = "dirs"
    /\ call.next > Len(call.batch_dirs)
    /\ call' = [call EXCEPT !.pc = "merged"]
    /\ UNCHANGED <<main_vars, cidr, merge, pool>>

NextSkip == SkipDir \/ SkipDone

SpecSkip == InitSkip /\ [][NextSkip]_vars

(* ============================ properties =============================== *)
Targets == Range(TARGET_COUNTRIES)
Endpoint(r) == <<r.ip, r.port>>
(* the batches main has evaluated so far *)
BatchesDone ==
    IF pc \in {"final", "done"} THEN batch_index + 1
    ELSE IF pc \in {"loop", "probing"} THEN batch_index ELSE 0
Invalid(host) == is_private(host) \/ is_loopback(host) \/ is_link_local(host)

(* C1: the accumulated store (all_results, which tester.results is after  *)
(* each batch) never holds two entries of one country with the same       *)
(* (ip, port).                                                            *)
C1_StoreHasNoDuplicateEndpoint ==
    \A c \in DOMAIN all_results :
        \A i, j \in 1..Len(all_results[c]) :
            i # j => Endpoint(all_results[c][i]) # Endpoint(all_results[c][j])

(* C2: the number of entries stored for a target country never exceeds    *)
(* its target count.                                                      *)
C2_StoredCountWithinTarget ==
    \A c \in Targets :
        /\ Len(Get(all_results, c)) <= GetCount(target_counts, c)
        /\ Len(Get(results, c)) <= GetCount(target_counts, c)

(* C3: when the stored count of a target country equals its target count, *)
(* no step of the run changes that count.                                 *)
C3_QuotaMonotonicity ==
    [][\A c \in Targets :
          Len(Get(all_results, c)) = GetCount(target_counts, c)
              => /\ Len(Get(all_results', c)) = Len(Get(all_results, c))
                 /\ Len(Get(results', c)) = Len(Get(all_results, c))]_vars
(* a second batch has been evaluated with the quota of US met before it,  *)
(* and it added nothing for US                                            *)
C3_Witness ==
    /\ BatchesDone >= 2
    /\ pc \in {"loop", "final"}
    /\ GetCount(target_counts, "US") > 0
    /\ Len(Get(all_results, "US")) = GetCount(target_counts, "US")
    /\ "US" \notin DOMAIN batch_results
    /\ "JP" \in DOMAIN batch_results

(* C4: every country file holds at most target count lines.               *)
C4_FileWithinTarget ==
    \A c \in DOMAIN files : Len(files[c]) <= GetCount(target_counts, c)
(* a file was cut: the store holds more entries than the file has lines   *)
C4_Witness ==
    \E c \in DOMAIN files :
        /\ Len(Get(all_results, c)) > GetCount(target_counts, c)
        /\ Len(files[c]) = GetCount(target_counts, c)

(* C5: every stored result, and every result a probe returns or keeps as  *)
(* its best, has a latency of at most max_latency; a slower measurement   *)
(* takes no quota slot.                                                   *)
C5_StoredLatencyWithinMax ==
    /\ \A c \in DOMAIN all_results : \A i \in 1..Len(all_results[c]) :
           all_results[c][i].latency <= max_latency * LatScale
    /\ \A c \in DOMAIN results : \A i \in 1..Len(results[c]) :
           results[c][i].latency <= max_latency * LatScale
    /\ \A i \in 1..Len(tasks) :
           /\ tasks[i].ret # None => tasks[i].ret[1].latency <= max_latency * LatScale
           /\ tasks[i].best # None => tasks[i].best[1].latency <= max_latency * LatScale
(* a probe measured more than max_latency, went on to its second attempt, *)
(* and the store has room for the country of that measurement             *)
C5_Witness ==
    \E i \in 1..Len(tasks) :
        /\ tasks[i].st = "running"
        /\ tasks[i].att = 2
        /\ tasks[i].result # None
        /\ tasks[i].result[1].latency > max_latency * LatScale
        /\ Len(Get(results, "US")) < GetCount(target_counts, "US")

(* C6: test_ips accepts in task order: of the results of the batch that   *)
(* classify as target country c, the first m are accepted, m being the    *)
(* room left for c when the batch is evaluated; results of other          *)
(* countries are not accepted; the store gains the accepted results and   *)
(* nothing else.  In the first batch of a run with target US = 2, US      *)
(* results of 50, 30 and 80 ms in this order store 50 and 30 and the file *)
(* reads 30, 50.                                                          *)
CountryResults(valid, c) == SelectSeq(valid, LAMBDA r : r.country = c)
Room(c) ==
    IF GetCount(target_counts, c) > Len(Get(results, c))
    THEN GetCount(target_counts, c) - Len(Get(results, c)) ELSE 0
LatenciesOf(rs) == [i \in 1..Len(rs) |-> rs[i].latency]
AllSatisfied ==
    \A c \in Targets : Len(Get(all_results, c)) >= GetCount(target_counts, c)
C7_GlobalStop ==
    /\ BatchesDone >= 1 => (should_stop <=> AllSatisfied)
    /\ should_stop => pc \in {"final", "done"}
    /\ pc \in {"final", "done"} /\ ~should_stop
           => BatchesDone * concurrent >= Len(ips)
(* the run stopped early: quotas are met and candidates remain            *)
C7_Witness ==
    /\ pc = "final"
    /\ should_stop
    /\ BatchesDone * concurrent < Len(ips)

(* C8: no GET is ever issued to a private, loopback or link-local         *)
(* address.                                                               *)
C8_NoDialOfInvalidAddress ==
    \A e \in dialed : ~Invalid(e[1])

(* the usable hosts of a prefix: its addresses but the network and the    *)
(* broadcast address                                                      *)
UsableHosts(prefixlen) ==
    IF 2^(32 - prefixlen) > 2 THEN 2^(32 - prefixlen) - 2 ELSE 0
HostOffsets(prefixlen) == 1..UsableHosts(prefixlen)
CidrReturned == cidr.pc = "return"

(* C9 as claimed: every call returns exactly min(K, H) addresses.         *)
C9_ExactlyMinOfCountAndHosts ==
    CidrReturned =>
        Cardinality(cidr.result) = Min(cidr.count, UsableHosts(cidr.prefixlen))

(* C9 as amended: a call returns distinct addresses of the prefix, none   *)
(* the network or the broadcast address, at most min(K, H) of them and at *)
(* least one when H > 0; it returns exactly min(K, H) unless it used up   *)
(* its 10 x min(K, H) draws.                                              *)
C9_AtMostMinOfCountAndHosts ==
    CidrReturned =>
        LET H == UsableHosts(cidr.prefixlen)
            wanted == Min(cidr.count, H)
        IN  /\ cidr.result \subseteq
                   {AddOffset(network_address(cidr.address, cidr.prefixlen), o) :
                        o \in HostOffsets(cidr.prefixlen)}
            /\ Cardinality(cidr.result) <= wanted
            /\ H > 0 => Cardinality(cidr.result) >= 1
            /\ Cardinality(cidr.result) < wanted => cidr.attempts = 10 * wanted
(* 198.51.100.0/30 with K = 5 came back with one address after 20 draws   *)
C9_Witness ==
    /\ CidrReturned
    /\ cidr.address = Addr(198, 51, 100, 0)
    /\ cidr.prefixlen = 30
    /\ cidr.count = 5
    /\ cidr.attempts = 20
    /\ Cardinality(cidr.result) = 1

(* the result lines of the input that parse_ip_line accepts *)
InputResults ==
    {l \in UNION {UNION {Range(merge.batch_dirs[d][c]) :
                             c \in DOMAIN merge.batch_dirs[d]} :
                    d \in 1..Len(merge.batch_dirs)} :
        parse_ip_line(l) # None}
(* the result lines of the merged files *)
MergedResults ==
    {l \in UNION {Range(merge.files[c]) : c \in DOMAIN merge.files} :
        l.kind = "result"}
LineKey(l) == <<l.ip, l.port>>

(* C10: the merge writes, for every endpoint of its input, a single line  *)
(* whose latency is the lowest of the endpoint's input lines.             *)
C10_MergeKeepsLowestLatency ==
    merge.pc = "done" =>
        \A l \in InputResults :
            /\ Cardinality({m \in MergedResults : LineKey(m) = LineKey(l)}) = 1
            /\ \A m \in MergedResults :
                   LineKey(m) = LineKey(l) => m.ms <= l.ms

(* the positions of the result lines of the merged files *)
MergedPositions ==
    {<<c, i>> \in (DOMAIN merge.files) \X (1..(5 + MaxDirs * MaxLines)) :
        i <= Len(merge.files[c]) /\ merge.files[c][i].kind = "result"}

(* C11: the merged files hold every (ip, port) at most once, over all     *)
(* countries, and the lines of each file are in ascending latency order.  *)
C11_MergedUniqueAndSorted ==
    merge.pc = "done" =>
        \A p, q \in MergedPositions :
            LET l == merge.files[p[1]][p[2]]
                m == merge.files[q[1]][q[2]]
            IN  /\ LineKey(l) = LineKey(m) => p = q
                /\ (p[1] = q[1] /\ p[2] < q[2]) => l.ms <= m.ms
(* a merge is done whose input held one endpoint twice *)
C11_Witness ==
    /\ merge.pc = "done"
    /\ Len(merge.batch_dirs) = 2
    /\ \E l \in InputResults :
           /\ l \in Range(merge.batch_dirs[1]["US"])
           /\ \E m \in Range(merge.batch_dirs[2]["US"]) :
                  LineKey(m) = LineKey(l) /\ m.ms # l.ms
    /\ Cardinality(MergedPositions) = 1

(* C12: a result with a two-letter upper-case country, written by         *)
(* to_display_format and read by parse_ip_line, comes back with its ip,   *)
(* port, country and type, and with its latency rounded to whole          *)
(* milliseconds: a whole number at most half a millisecond away.          *)
C12_LineRoundTrip ==
    (call.pc = "parsed" /\ call.self.country \in TwoUpperCase) =>
        /\ call.result # None
        /\ LET r == call.self
               back == call.result[1]
               d == IF back.latency >= r.latency THEN back.latency - r.latency
                    ELSE r.latency - back.latency
           IN  /\ back.ip = r.ip
               /\ back.port = r.port
               /\ back.country = r.country
               /\ back.type = r.type
               /\ back.latency % LatScale = 0
               /\ 2 * d <= LatScale
               /\ back.latency = Round0(r.latency) * LatScale
(* a proxy result of 80.6 ms was written and read back as 81 ms *)
C12_Witness ==
    /\ call.pc = "parsed"
    /\ call.self.country = "JP"
    /\ call.self.type = "proxy"
    /\ call.self.latency = 806
    /\ call.result # None
    /\ call.result[1].latency = 81 * LatScale

DefaultCandidates ==
    UNION UNION {cidr_returns(DEFAULT_CIDRS[i], 10) : i \in 1..Len(DEFAULT_CIDRS)}
(* the turns of the loop of get_all_ips so far *)
Turns == 1..Len(pool.log)
(* the fetch of a turn failed: an exception or a status other than 200 *)
FetchFailed(i) == pool.log[i].fetch.status # 200
(* the text of a turn held no line that could be read *)
ParseFailed(i) ==
    /\ pool.log[i].fetch.status = 200
    /\ pool.log[i].fetch.text # <<>>
    /\ \A l \in Range(pool.log[i].fetch.text) : l.kind = "junk"
(* the loop goes through the sources in order and ends early only over   *)
(* the ceiling                                                            *)
PoolLoopContinues ==
    /\ \A i \in Turns : pool.log[i].ip_source = ip_sources[i]
    /\ pool.pc = "loop" => pool.next = Len(pool.log) + 1
    /\ pool.pc \in {"shuffle", "return"} =>
           \/ Len(pool.log) = Len(ip_sources)
           \/ Cardinality(pool.all_ips) > Ceiling

C16_NoSourceAtCeiling ==
    \A i \in Turns : Cardinality(pool.log[i].before) < Ceiling
(* C16, amended: once the pool holds more than the ceiling, no further    *)
(* source is added to it; the pool passes the ceiling by no more than     *)
(* what the last source added.                                            *)
C16_NoSourceOverCeiling ==
    /\ \A i \in Turns : Cardinality(pool.log[i].before) <= Ceiling
    /\ pool.log # <<>> =>
           Cardinality(pool.all_ips)
               <= Ceiling + Cardinality(pool.log[Len(pool.log)].ips)
    /\ (pool.pc \in {"shuffle", "return"} /\ Cardinality(pool.all_ips) <= Ceiling)
           => Len(pool.log) = Len(ip_sources)
(* a pool of exactly the ceiling took one more source, passed the ceiling *)
(* and was returned with a source left                                    *)
C16_Witness ==
    /\ pool.pc = "return"
    /\ Len(pool.log) = 2
    /\ Len(pool.log) < Len(ip_sources)
    /\ Cardinality(pool.log[2].before) = Ceiling
    /\ Cardinality(pool.all_ips) > Ceiling
    /\ Len(pool.result) = Cardinality(pool.all_ips)

(* C17: no two candidates of the pool that get_all_ips returns are, as    *)
(* _parse_ip_format resolves them against the probe port, the same        *)
(* (address, port).                                                       *)
C17_PoolHasNoDuplicateEndpoint ==
    pool.pc = "return" =>
        \A i, j \in DOMAIN pool.result :
            \A p \in DOMAIN TARGET_PORTS :
                LET a == _parse_ip_format(pool.result[i], TARGET_PORTS[p])
                    b == _parse_ip_format(pool.result[j], TARGET_PORTS[p])
                IN  (a.host = b.host /\ a.port = b.port) => i = j

(* C15: with no candidate from any source the run aborts: no batch is     *)
(* probed, no file and no summary is written, and the store stays empty.  *)
C15_EmptyPoolAborts ==
    /\ ips = <<>> =>
           /\ pc \in {"start", "aborted"}
           /\ tasks = <<>>
           /\ dialed = {}
           /\ files = EmptyDict
           /\ summary = None
           /\ results = EmptyDict
           /\ all_results = EmptyDict
           /\ batch_results = EmptyDict
    /\ pc = "aborted" => ips = <<>>
(* the run has aborted on an empty pool *)
C15_Witness ==
    /\ pc = "aborted"
    /\ ips = <<>>
    /\ summary = None

(* C18: at every moment of a batch the probes that hold the semaphore    *)
(* are at most max_concurrent, whatever the size of the batch and the     *)
(* order in which probes finish.                                          *)
C18_InFlightWithinLimit ==
    /\ InFlight <= max_concurrent
    /\ \A i \in 1..Len(tasks) :
           tasks[i].st \in {"waiting", "running", "done"}
(* a batch wider than the semaphore: the semaphore is full, one probe has *)
(* finished and one still waits                                           *)
C18_Witness ==
    /\ pc = "probing"
    /\ Len(tasks) > max_concurrent
    /\ InFlight = max_concurrent
    /\ \E i \in 1..Len(tasks) : tasks[i].st = "waiting"
    /\ \E i \in 1..Len(tasks) : tasks[i].st = "done"

(* a probe of the batch starts, goes on or finishes in this step *)
ProbeStep ==
    /\ pc = "probing"
    /\ pc' = "probing"
    /\ tasks' # tasks
(* the step writes what the evaluation of a batch writes *)
StoreStep ==
    \/ results' # results
    \/ all_results' # all_results
    \/ completed_counts' # completed_counts
    \/ batch_results' # batch_results
    \/ files' # files
    \/ summary' # summary
(* every probe of the dispatched batch has finished *)
AllProbesDone ==
    /\ Len(tasks) = Len(batch_ips)
    /\ \A i \in 1..Len(tasks) : tasks[i].st = "done"

(* C19: a batch boundary is a barrier: the evaluation of a batch starts   *)
(* only when every probe of it has finished, no probe of the next batch   *)
(* starts before the evaluation is complete, and no probe of a dispatched *)
(* batch is dropped.                                                      *)
C19_BatchBarrier ==
    [][/\ (pc = "probing" /\ pc' # "probing") => AllProbesDone
       /\ (pc = "probing" /\ StoreStep) => AllProbesDone
       /\ (pc = "probing" /\ pc' # "probing") =>
              (/\ tasks' = <<>>
               /\ pc' \in {"loop", "final"}
               /\ summary' # None
               /\ aliased')
       /\ (pc # "probing" /\ pc' = "probing") =>
              (/\ pc = "loop"
               /\ tasks = <<>>
               /\ Len(tasks') = Len(batch_ips)
               /\ \A i \in 1..Len(tasks') : tasks'[i].st = "waiting"
               /\ ~StoreStep)
       /\ pc' # "probing" => tasks' = <<>>
       /\ ProbeStep =>
              (/\ Len(tasks') = Len(tasks)
               /\ \A i \in 1..Len(tasks) :
                      tasks[i].st = "done" => tasks'[i] = tasks[i])
      ]_vars
(* the second batch is being probed: both probes of the first were made, *)
(* the batch was evaluated and saved, and the probe of the second batch   *)
(* is at its second attempt                                               *)
C19_Witness ==
    /\ pc = "probing"
    /\ batch_index = 1
    /\ concurrent = 2
    /\ summary # None
    /\ Len(Get(files, "US")) = 2
    /\ Len(tasks) = 1
    /\ tasks[1].st = "running"
    /\ tasks[1].att = 2

(* C20: the store and the counts change only in the evaluation after all  *)
(* probes of the batch have returned; while probes are in flight the      *)
(* store is as the batch before left it, so that is what every quota      *)
(* check of a probe reads.                                                *)
C20_StoreFixedWhileProbing ==
    [][/\ ProbeStep =>
              UNCHANGED <<results, all_results, completed_counts, batch_results,
                          files, summary>>
       /\ StoreStep => (pc \in {"probing", "final"}
                        /\ (pc = "probing" => AllProbesDone))
       /\ (pc' = "probing" /\ batch_index' = 0) => results' = EmptyDict
       /\ (pc' = "probing" /\ batch_index' > 0) =>
              (aliased' /\ results' = all_results')
      ]_vars
(* a probe of the third batch is in flight, at its second attempt, and   *)
(* the store is the one the second batch left: one entry for US and two   *)
(* for JP                                                                 *)
C20_Witness ==
    /\ pc = "probing"
    /\ batch_index = 2
    /\ concurrent = 1
    /\ aliased
    /\ results = all_results
    /\ Len(Get(results, "US")) = 1
    /\ Len(Get(results, "JP")) = 2
    /\ GetCount(target_counts, "US") = 2
    /\ tasks[1].st = "running"
    /\ tasks[1].att = 2

(* the calls of _single_test for one port that the log of test_ip holds   *)
ProbeCalls(p) ==
    {i \in 1..Len(call.log) : call.log[i].ev = "single_test" /\ call.log[i].port = p}
ProbePorts == {call.log[i].port : i \in {k \in 1..Len(call.log) : call.log[k].ev = "single_test"}}
InProbe == call.pc \in {"test_ip", "sleep", "return"}

C29_RetryOnlyAfterNoResult ==
    InProbe =>
        \A i, j \in 1..Len(call.log) :
            (/\ i < j
             /\ call.log[i].ev = "single_test"
             /\ call.log[j].ev = "single_test"
             /\ call.log[i].port = call.log[j].port)
            => call.log[i].result = None

(* C22: main always ends: every batch that is probed is evaluated; the    *)
(* evaluation ends the loop when all quotas are met or the pool is used   *)
(* up, and goes on to the next batch otherwise; the run reaches its end   *)
(* after at most ceil(|pool| / batch size) batches.                      *)
C22_MainTerminates ==
    /\ <>(pc \in {"done", "aborted"})
    /\ (pc = "probing") ~> (pc \in {"loop", "final"})
    /\ [](BatchesDone * concurrent < Len(ips) + concurrent)
    /\ [][(pc = "probing" /\ pc' # "probing") =>
             IF \/ \A c \in Targets :
                       Len(Get(all_results', c)) >= GetCount(target_counts, c)
                \/ (batch_index + 1) * concurrent >= Len(ips)
             THEN pc' = "final" /\ batch_index' = batch_index
             ELSE pc' = "loop" /\ batch_index' = batch_index + 1]_vars

(* C22 witness: the run has ended with the pool used up, after two        *)
(* batches, the quotas not met                                            *)
C22_Witness ==
    /\ pc = "done"
    /\ BatchesDone = 2
    /\ Len(ips) = 2
    /\ concurrent = 1
    /\ ~should_stop

(* the output directory holds the accumulated results: the file of every  *)
(* target country with results, and the summary, are as a save of         *)
(* all_results writes them                                                *)
Persisted ==
    /\ summary = Some(saved_summary(all_results))
    /\ \A c \in Targets :
           Get(all_results, c) # <<>> =>
               (c \in DOMAIN files /\ files[c] = country_lines(all_results, c))

(* C23: when a batch has been evaluated, the batch that stops the run     *)
(* early included, the accumulated results are on disk before the next    *)
(* batch is dispatched or the run ends; the final save writes what the    *)
(* save of the last batch wrote.                                          *)
C23_PersistedAfterEveryBatch ==
    /\ [](BatchesDone >= 1 => Persisted)
    /\ [][/\ (pc = "probing" /\ pc' # "probing") =>
                 (pc' \in {"loop", "final"} /\ BatchesDone' = BatchesDone + 1)
          /\ (pc # "probing" /\ pc' = "probing") => BatchesDone = batch_index
          /\ (pc # "done" /\ pc' = "done") =>
                 (/\ pc = "final" /\ BatchesDone >= 1
                  /\ files' = files /\ summary' = summary)
         ]_vars

(* C23 witness: the second batch met the quotas with candidates left, its *)
(* results are on disk, the final save is still to come                   *)
C23_Witness ==
    /\ pc = "final"
    /\ should_stop
    /\ batch_index = 1
    /\ (batch_index + 1) * concurrent < Len(ips)
    /\ Persisted
    /\ "US" \in DOMAIN files /\ "JP" \in DOMAIN files

(* C24: once saved, the file of a target country with stored results      *)
(* holds min(n, stored count) lines, n the target count: the lines of     *)
(* that many stored entries, none of them slower than a stored entry left *)
(* out, in ascending order of latency.                                    *)
C24_FileHoldsLowest ==
    summary # None =>
        \A c \in Targets :
            Get(all_results, c) # <<>> =>
                LET stored == all_results[c]
                    n == GetCount(target_counts, c)
                    f == Get(files, c)
                IN  /\ Len(f) = Min(n, Len(stored))
                    /\ \E g \in [1..Len(f) -> 1..Len(stored)] :
                           /\ \A i, j \in 1..Len(f) : i # j => g[i] # g[j]
                           /\ \A i \in 1..Len(f) : f[i] = to_display_format(stored[g[i]])
                           /\ \A i, j \in 1..Len(f) :
                                  i < j => stored[g[i]].latency <= stored[g[j]].latency
                           /\ \A i \in 1..Len(f) :
                              \A k \in 1..Len(stored) :
                                  (\A j \in 1..Len(f) : g[j] # k)
                                  => stored[g[i]].latency <= stored[k].latency

(* C24 witness: US has three stored entries for a target of two; the file *)
(* holds the two fastest, the faster first, and the third is left out     *)
C24_Witness ==
    /\ pc = "done"
    /\ GetCount(target_counts, "US") = 2
    /\ Len(Get(all_results, "US")) = 3
    /\ Len(Get(files, "US")) = 2
    /\ files["US"][1].ms < files["US"][2].ms
    /\ files["US"][1] = to_display_format(all_results["US"][1])
    /\ all_results["US"][3].latency >= all_results["US"][2].latency

(* C25: the summary reports for each target country as many endpoints as *)
(* its result file holds lines, and a total that is the sum of the lines  *)
(* of the files.                                                          *)
C25_SummaryCountsFileLines ==
    summary # None =>
        /\ \A c \in DOMAIN summary[1].counts :
               summary[1].counts[c] = Len(Get(files, c))
        /\ \A c \in Targets :
               Get(files, c) # <<>> => c \in DOMAIN summary[1].counts
        /\ summary[1].total =
               SumCounts(TARGET_COUNTRIES, [c \in DOMAIN files |-> files[c]])

(* the codes of the table that the first three letters of a hint spell,   *)
(* whatever their case                                                    *)
ColoHits(colo) ==
    {k \in DOMAIN colo_to_country :
        /\ Len(colo) >= Len(k)
        /\ \A i \in 1..Len(k) : colo[i] = k[i] \/ colo[i] = lower(k[i])}

(* C26: for every region hint _get_country_from_colo returns a value: the *)
(* country of the table when the first three letters of the hint, in      *)
(* upper case, are a code of the table, and UNKNOWN otherwise, the empty  *)
(* hint included; nothing else changes.                                   *)
C26_ClassifierTotal ==
    [][call.pc = "call" =>
          /\ call'.pc = "classified"
          /\ call'.colo = call.colo
          /\ IF ColoHits(call.colo) # {}
             THEN \E k \in ColoHits(call.colo) : call'.ret = Some(colo_to_country[k])
             ELSE call'.ret = Some("UNKNOWN")
          /\ UNCHANGED <<main_vars, cidr, merge, pool>>
      ]_vars

(* C26 witness: the hint nrt01 was classified as JP *)
C26_Witness ==
    /\ call.pc = "classified"
    /\ call.colo = <<"n", "r", "t", "0", "1">>
    /\ call.ret = Some("JP")

(* a line that is neither blank nor a comment and does not match the      *)
(* pattern of a result line                                               *)
Malformed(l) ==
    \/ l.kind = "garbage"
    \/ l.kind = "result" /\ l.country \notin TwoUpperCase
WellFormed(l) == l.kind = "result" /\ l.country \in TwoUpperCase
RECURSIVE WithoutMalformed(_)
WithoutMalformed(lines) ==
    IF lines = <<>> THEN <<>>
    ELSE (IF Malformed(Head(lines)) THEN <<>> ELSE <<Head(lines)>>)
         \o WithoutMalformed(Tail(lines))
(* all lines of the files read so far, in the order read *)
SkipLinesRead ==
    IF call.next > 2
    THEN call.batch_dirs[1]["US"] \o call.batch_dirs[2]["US"]
    ELSE IF call.next > 1 THEN call.batch_dirs[1]["US"] ELSE <<>>

(* C27: a line of a result file that does not match the line format is    *)
(* skipped and the merge goes on: the merged results are those of the     *)
(* same files without such lines, they hold an entry for the endpoint of  *)
(* every well-formed line read, before or after a malformed one, in the   *)
(* same or in a later file, and no entry for anything else.               *)
C27_MalformedLineSkipped ==
    call.pc \in {"dirs", "merged"} =>
        LET read == SkipLinesRead
            merged == Get(call.country_results, "US")
            clean == merge_lines(WithoutMalformed(read), "US",
                                 [country_results |-> EmptyDict, seen_ips |-> {}])
            keys == {<<read[i].ip, read[i].port>> :
                        i \in {k \in 1..Len(read) : WellFormed(read[k])}}
        IN  /\ call.country_results = clean.country_results
            /\ call.seen_ips = keys
            /\ {<<merged[i].ip, merged[i].port>> : i \in 1..Len(merged)} = keys
            /\ Len(merged) = Cardinality(keys)

(* C27 witness: the first file held a malformed line, a well-formed line  *)
(* and a malformed line, the second file a well-formed line of another    *)
(* endpoint; both endpoints are merged                                    *)
C27_Witness ==
    /\ call.pc = "merged"
    /\ call.batch_dirs[1]["US"] =
           <<GarbageLine,
             ResultLine(Addr(1, 2, 3, 4), 443, "US", TypeTextOfficial, 40),
             GarbageLine>>
    /\ call.batch_dirs[2]["US"] =
           <<ResultLine(Addr(1, 2, 3, 5), 443, "US", TypeTextProxy, 30)>>
    /\ Len(Get(call.country_results, "US")) = 2
    /\ call.country_results["US"][1].ip = Addr(1, 2, 3, 4)
    /\ call.country_results["US"][2].ip = Addr(1, 2, 3, 5)

(* C28: the sampling loop of _generate_ips_from_cidr makes at most        *)
(* 10 x min(K, H) draws, each of them counted, and the call returns; it   *)
(* returns at most min(K, H) addresses, each the network address plus an  *)
(* offset in 1..H, and the empty list for a prefix with H <= 0.           *)
C28_BoundedSampling ==
    /\ <>(cidr.pc = "return")
    /\ [](LET H == num_addresses(cidr.prefixlen) - 2
              wanted == IF H <= 0 THEN 0 ELSE Min(cidr.count, H)
          IN  /\ cidr.attempts <= 10 * wanted
              /\ CidrReturned =>
                     /\ Cardinality(cidr.result) <= wanted
                     /\ \A a \in cidr.result :
                            \E o \in 1..H :
                                a = AddOffset(network_address(cidr.address,
                                                              cidr.prefixlen), o)
                     /\ H <= 0 => (cidr.result = {} /\ cidr.attempts = 0))
    /\ [][/\ cidr'.ips # cidr.ips => cidr'.attempts = cidr.attempts + 1
          /\ cidr'.attempts # cidr.attempts =>
                 (cidr.pc = "loop" /\ cidr'.attempts = cidr.attempts + 1)
          /\ cidr.pc = "return" => cidr' = cidr]_vars

(* C28 witness: 104.16.0.5/30 with K = 5 used its 20 draws and came back  *)
(* with 104.16.0.6 alone                                                  *)
C28_Witness ==
    /\ CidrReturned
    /\ cidr.address = Addr(104, 16, 0, 5)
    /\ cidr.prefixlen = 30
    /\ cidr.count = 5
    /\ cidr.attempts = 20
    /\ cidr.result = {Addr(104, 16, 0, 6)}

(* the positions of the pool that batch i covers, B the batch size *)
Slice(i) ==
    {p \in 1..Len(ips) : i * concurrent < p /\ p <= (i + 1) * concurrent}

(* C30: the batches are consecutive slices of the pool, of the size of    *)
(* the concurrency limit: the first batch starts at the head of the pool, *)
(* a dispatch creates one probe per entry of slice batch_index, a probe   *)
(* dials the entry of its position in the slice, batch_index goes up by   *)
(* one from one dispatch to the next, and a run that was not stopped      *)
(* early ends only when the slices have covered the pool.                 *)
C30_BatchesPartitionPool ==
    /\ batch_index = 0
    /\ [][/\ (pc = "loop" /\ pc' = "probing") =>
                 (/\ Len(tasks') = Cardinality(Slice(batch_index))
                  /\ Slice(batch_index) # {}
                  /\ concurrent = max_concurrent
                  /\ batch_index' = batch_index)
          /\ batch_index' # batch_index =>
                 (/\ batch_index' = batch_index + 1
                  /\ pc = "probing" /\ pc' = "loop")
          /\ (pc = "probing" /\ pc' = "loop") => batch_index' = batch_index + 1
          /\ dialed' # dialed =>
                 (/\ pc = "probing"
                  /\ \E i \in 1..Len(tasks) :
                         /\ tasks'[i] # tasks[i]
                         /\ batch_index * concurrent + i \in Slice(batch_index)
                         /\ LET e == ips[batch_index * concurrent + i]
                            IN  dialed' = dialed \cup
                                    {<<e.host, IF e.port # 0 THEN e.port
                                               ELSE TARGET_PORTS[1]>>})
          /\ (pc' = "done" /\ ~should_stop') =>
                 (batch_index' + 1) * concurrent >= Len(ips)
         ]_vars

(* C30 witness: a pool of three in batches of two; the second batch is    *)
(* the third entry alone, and its endpoint has been dialed                *)
C30_Witness ==
    /\ pc = "probing"
    /\ Len(ips) = 3
    /\ concurrent = 2
    /\ batch_index = 1
    /\ Len(tasks) = 1
    /\ Slice(1) = {3}
    /\ tasks[1].st = "running" /\ tasks[1].att = 2
    /\ <<ips[3].host, ips[3].port>> \in dialed

(* how many times x occurs in the list s *)
Occurrences(s, x) == Cardinality({i \in 1..Len(s) : s[i] = x})

(* every entry of the store before is an entry of the store after, as     *)
(* many times at least                                                    *)
Kept(before, after) ==
    \A c \in DOMAIN before :
        /\ Len(Get(after, c)) >= Len(before[c])
        /\ \A x \in Range(before[c]) :
               Occurrences(Get(after, c), x) >= Occurrences(before[c], x)

(* C31: the store grows monotonically over the whole run: across every    *)
(* step, the end of a batch with its reassignment of the tester's store   *)
(* and the final save included, every entry of the tester's store and of  *)
(* the accumulated store is still there afterwards, and no country's      *)
(* count goes down.                                                       *)
C31_StoreMonotone ==
    [][/\ Kept(results, results')
       /\ Kept(all_results, all_results')
       /\ \A c \in DOMAIN completed_counts :
              GetCount(completed_counts', c) >= completed_counts[c]]_vars

(* C31 witness: three batches of one; the first two each stored a US      *)
(* entry and the store after the reassignment of the second batch holds   *)
(* them all, while the third batch is being probed                        *)
C31_Witness ==
    /\ pc = "probing"
    /\ batch_index = 2
    /\ concurrent = 1
    /\ aliased
    /\ Len(Get(results, "US")) >= 2
    /\ results = all_results

(* the distinct endpoints of a list of results or of written lines *)
Endpoints(s) == {<<s[i].ip, s[i].port>> : i \in 1..Len(s)}

(* C32: when the run stopped early on the all-satisfied check, the store  *)
(* holds at least targetCount distinct endpoints for every target country *)
(* with a positive targetCount, and the file of that country lists        *)
(* exactly targetCount distinct endpoints.                                *)
C32_EarlyStopDistinctEndpoints ==
    (should_stop /\ pc \in {"final", "done"}) =>
        \A c \in Targets :
            GetCount(target_counts, c) > 0 =>
                /\ Cardinality(Endpoints(Get(all_results, c))) >= target_counts[c]
                /\ c \in DOMAIN files
                /\ Cardinality(Endpoints(files[c])) = target_counts[c]

(* the calls of _single_test that returned the measurement r reports *)
MeasuredBy(r) ==
    {i \in 1..Len(call.log) :
        /\ call.log[i].ev = "single_test"
        /\ call.log[i].result # None
        /\ call.log[i].result[1].latency = r.latency
        /\ call.log[i].result[1].colo = r.colo}

(* C33: the port of the IPResult that test_ip returns is the port that    *)
(* was dialed for the measurement it reports, for a bare candidate and    *)
(* for a candidate with its own port, under every port list.              *)
C33_RecordedPortIsDialedPort ==
    (call.pc = "return" /\ call.t.ret # None) =>
        \E i \in MeasuredBy(call.t.ret[1]) : call.log[i].port = call.t.ret[1].port

(* --------------------------- ip_delay_tester --------------------------- *)

MIN_COUNTRIES_REQUIRED == 2
TEST_PORTS == <<80>>
DELAY_TARGET_COUNTRIES == <<"US", "JP", "SG", "HK">>
(* the first keys of IP_SOURCES, in the order main walks them *)
DELAY_SOURCES == <<"cfip", "as13335", "as209242">>

(* get_ip_country: the fallback table by first octet *)
FallbackCountry(ip) ==
    IF is_private(ip) THEN "PRIVATE"
    ELSE IF ip[1] \in {1, 8, 13, 23, 24, 32, 34, 35, 50, 52, 54, 63, 64, 65, 66,
                       67, 68, 69, 70, 71, 72, 73, 74, 75, 76, 96, 97, 98, 99,
                       104, 107, 108, 128, 129, 130, 131, 132, 134, 135, 136,
                       137, 138, 139, 140, 142, 143, 144, 146, 147, 148, 149,
                       152, 155, 156, 157, 158, 159, 160, 161, 162, 164, 165,
                       166, 167, 168, 169, 170, 172, 173, 174, 192, 198, 199,
                       204, 205, 206, 207, 208, 209, 216} THEN "US"
    ELSE IF ip[1] \in {58, 59, 60, 61, 101, 103, 106, 110, 111, 112, 113, 114,
                       115, 116, 117, 118, 119, 120, 121, 122, 123, 124, 125,
                       126, 175, 176, 177, 178, 179, 180, 182, 183, 202, 203,
                       210, 211, 218, 219, 220, 221, 222, 223} THEN "CN"
    ELSE IF ip[1] \in {43, 49, 58, 59, 60, 61, 103, 106, 110, 111, 112, 113,
                       114, 115, 116, 117, 118, 119, 120, 121, 122, 123, 124,
                       125, 126, 133, 153, 202, 203, 210, 211, 218, 219, 220,
                       221, 222, 223} THEN "JP"
    ELSE "UNKNOWN"

(* get_ip_country: the country code of the API's answer, the fallback     *)
(* table when the API gave none                                           *)
get_ip_country(ip, api) == IF api # None THEN api[1] ELSE FallbackCountry(ip)

(* what the network does with one probe: the connection times out or is   *)
(* refused, or it opens after 30 ms and the API answers CN or fails       *)
DelayOutcomes ==
    {[conn |-> "timeout", latency |-> 0, api |-> None]}
    \cup {[conn |-> "ok", latency |-> 300, api |-> a] : a \in {None, Some("CN")}}

(* test_single_ip_port: (success, latency, country) *)
test_single_ip_port(ip, port, out) ==
    IF is_private(ip) \/ is_loopback(ip) \/ is_link_local(ip)
    THEN <<FALSE, -1, "INVALID">>
    ELSE IF out.conn = "ok"
    THEN <<TRUE, out.latency, get_ip_country(ip, out.api)>>
    ELSE <<FALSE, -1, "UNKNOWN">>

(* IPDelayTester.test_ip: the loop over the port results, from port i on *)
RECURSIVE delay_test_ip_from(_, _, _)
delay_test_ip_from(res, outs, i) ==
    IF i > Len(TEST_PORTS) THEN res
    ELSE LET port == TEST_PORTS[i]
             r == test_single_ip_port(res.ip, port, outs[i])
             a == [res EXCEPT !.ports =
                      Put(@, port, [success |-> r[1],
                                    latency |-> IF r[1] THEN r[2] ELSE -1])]
             b == IF r[1] /\ (a.best_latency = None \/ r[2] < a.best_latency[1])
                  THEN [a EXCEPT !.best_latency = Some(r[2]), !.best_port = Some(port)]
                  ELSE a
             c == IF r[3] # "UNKNOWN" THEN [b EXCEPT !.country = r[3]] ELSE b
         IN  delay_test_ip_from(c, outs, i + 1)

(* IPDelayTester.test_ip; best_latency None stands for float('inf') *)
delay_test_ip(ip, outs) ==
    delay_test_ip_from([ip |-> ip, ports |-> EmptyDict, best_latency |-> None,
                        best_port |-> None, country |-> "UNKNOWN"], outs, 1)

(* test_ip_batch: one result per candidate, in the order of the batch *)
test_ip_batch(batch, outs) ==
    [k \in 1..Len(batch) |-> delay_test_ip(batch[k], outs[k])]

(* a variant of should_stop_testing that never asks to stop *)
should_stop_testing_never(country_stats) == FALSE

(* should_stop_testing *)
should_stop_testing(country_stats) ==
    Cardinality({k \in 1..Len(DELAY_TARGET_COUNTRIES) :
                    /\ DELAY_TARGET_COUNTRIES[k] \in DOMAIN country_stats
                    /\ country_stats[DELAY_TARGET_COUNTRIES[k]] >= MAX_IPS_PER_COUNTRY})
        >= MIN_COUNTRIES_REQUIRED

(* a variant of update_country_stats that counts every known country *)
RECURSIVE update_country_stats_any(_, _)
update_country_stats_any(country_stats, res) ==
    IF res = <<>> THEN country_stats
    ELSE LET country == Head(res).country
         IN  update_country_stats_any(
                 IF country # "UNKNOWN"
                 THEN Put(country_stats, country, GetCount(country_stats, country) + 1)
                 ELSE country_stats,
                 Tail(res))

(* update_country_stats *)
RECURSIVE update_country_stats(_, _)
update_country_stats(country_stats, res) ==
    IF res = <<>> THEN country_stats
    ELSE LET country == Head(res).country
         IN  update_country_stats(
                 IF country # "UNKNOWN" /\ country \in Range(DELAY_TARGET_COUNTRIES)
                 THEN Put(country_stats, country, GetCount(country_stats, country) + 1)
                 ELSE country_stats,
                 Tail(res))

(* data.sort(key=best_latency): a stable sort *)
RECURSIVE delay_sorted(_)
delay_sorted(data) ==
    IF data = <<>> THEN <<>>
    ELSE LET rest == delay_sorted(SubSeq(data, 1, Len(data) - 1))
             x == data[Len(data)]
             before == SelectSeq(rest, LAMBDA y : y.best_latency[1] <= x.best_latency[1])
             after == SelectSeq(rest, LAMBDA y : y.best_latency[1] > x.best_latency[1])
         IN  before \o <<x>> \o after

(* save_results_by_country: one file per country other than UNKNOWN, the  *)
(* results with a latency in it, lowest first                             *)
save_results_by_country(res) ==
    [country \in {res[k].country : k \in 1..Len(res)} \ {"UNKNOWN"} |->
        LET data == delay_sorted(SelectSeq(res, LAMBDA r :
                        r.country = country /\ r.best_latency # None))
        IN  [k \in 1..Len(data) |->
                [ip |-> data[k].ip, country |-> country, ms |-> data[k].best_latency[1]]]]

(* the candidate at position k of the list of source s: a US address, a   *)
(* JP address, then an address test_single_ip_port rejects                *)
DelayEntry(s, k) ==
    CASE k % 3 = 1 -> Addr(1, 1, s, k)
      [] k % 3 = 2 -> Addr(43, 0, s, k)
      [] OTHER -> CASE s = 1 -> Addr(10, 0, 0, k)
                    [] s = 2 -> Addr(127, 0, 0, k)
                    [] OTHER -> Addr(169, 254, 0, k)

(* get_ips_from_source: nothing (the fetch failed or the list is empty),  *)
(* one candidate, or one batch and one more                               *)
get_ips_from_source(s) ==
    {[k \in 1..n |-> DelayEntry(s, k)] : n \in {0, 1, CONCURRENT_TESTS + 1}}

(* main of ip_delay_tester: after tester = IPDelayTester(); log keeps the *)
(* fetches and the batches handed to test_ip_batch                        *)
DelayEnter ==
    [pc |-> "d_source", source |-> 1, all_ips |-> <<>>, i |-> 0,
     all_results |-> <<>>, country_stats |-> EmptyDict, batch_results |-> <<>>,
     files |-> EmptyDict, log |-> <<>>]

InitDelay ==
    /\ MainIdle
    /\ cidr = CidrIdle
    /\ merge = MergeIdle
    /\ pool = PoolIdle
    /\ call = DelayEnter

(* main: the head of the loop over the sources, up to the first batch *)
DelaySource ==
    /\ call.pc = "d_source"
    /\ \E all_ips \in get_ips_from_source(call.source) :
           call' = [call EXCEPT
               !.all_ips = all_ips,
               !.i = 0,
               !.log = Append(@, [ev |-> "fetch", source |-> call.source,
                                  i |-> Len(all_ips)]),
               !.pc = IF all_ips # <<>> THEN "d_batch"
                      ELSE IF call.source < Len(DELAY_SOURCES) THEN "d_source"
                      ELSE "d_save",
               !.source = IF all_ips = <<>> /\ call.source < Len(DELAY_SOURCES)
                          THEN @ + 1 ELSE @]
    /\ UNCHANGED <<main_vars, cidr, merge, pool>>

(* main: one pass of the loop over the batches of a source *)
DelayBatch ==
    /\ call.pc = "d_batch"
    /\ LET batch == SubSeq(call.all_ips, call.i + 1,
                               Min(call.i + CONCURRENT_TESTS, Len(call.all_ips)))
       IN  \E outs \in [1..Len(batch) -> [1..Len(TEST_PORTS) -> DelayOutcomes]] :
           \E tested \in {test_ip_batch(batch, outs)} :
           \E stats \in {update_country_stats(call.country_stats, tested)} :
               call' = [call EXCEPT
                   !.all_results = @ \o tested,
                   !.country_stats = stats,
                   !.batch_results = tested,
                   !.log = Append(@, [ev |-> "batch", source |-> call.source,
                                      i |-> call.i]),
                   !.i = IF should_stop_testing(stats) THEN @ ELSE @ + CONCURRENT_TESTS,
                   !.pc = IF should_stop_testing(stats)
                             \/ call.i + CONCURRENT_TESTS >= Len(call.all_ips)
                          THEN "d_after" ELSE "d_batch"]
    /\ UNCHANGED <<main_vars, cidr, merge, pool>>

(* main: after the batches of a source, the check before the next source *)
DelayAfterSource ==
    /\ call.pc = "d_after"
    /\ call' = [call EXCEPT
           !.pc = IF should_stop_testing(call.country_stats)
                     \/ call.source = Len(DELAY_SOURCES)
                  THEN "d_save" ELSE "d_source",
           !.source = IF should_stop_testing(call.country_stats)
                         \/ call.source = Len(DELAY_SOURCES)
                      THEN @ ELSE @ + 1]
    /\ UNCHANGED <<main_vars, cidr, merge, pool>>

(* main: save_results_by_country(all_results) and the end *)
DelaySave ==
    /\ call.pc = "d_save"
    /\ call' = [call EXCEPT !.files = save_results_by_country(call.all_results),
                            !.pc = "d_done"]
    /\ UNCHANGED <<main_vars, cidr, merge, pool>>

NextDelay == DelaySource \/ DelayBatch \/ DelayAfterSource \/ DelaySave

SpecDelay == InitDelay /\ [][NextDelay]_vars

(* at least MIN_COUNTRIES_REQUIRED target countries have reached the quota *)
EnoughCountries(stats) ==
    Cardinality({c \in Range(DELAY_TARGET_COUNTRIES) :
                    GetCount(stats, c) >= MAX_IPS_PER_COUNTRY})
        >= MIN_COUNTRIES_REQUIRED

(* C34: in ip_delay_tester, once enough target countries have reached the *)
(* quota at the end of a batch, no further batch is probed and no further *)
(* source is fetched; and a run that ends without the condition has       *)
(* fetched every source and probed every batch of every list it got.      *)
C34_StopsAtFirstBoundary ==
    /\ [][call'.log # call.log => ~EnoughCountries(call.country_stats)]_vars
    /\ []((call.pc = "d_done" /\ ~EnoughCountries(call.country_stats)) =>
            \A s \in 1..Len(DELAY_SOURCES) :
                \E e \in Range(call.log) :
                    /\ e.ev = "fetch" /\ e.source = s
                    /\ \A i \in 0..(e.i - 1) :
                           i % CONCURRENT_TESTS = 0 =>
                               [ev |-> "batch", source |-> s, i |-> i] \in Range(call.log))

(* C34 witness: the first batch of the first source filled the quota of   *)
(* US and JP; the run ended with the last candidate of that list unprobed *)
(* and the other sources never fetched                                    *)
C34_Witness ==
    /\ call.pc = "d_done"
    /\ EnoughCountries(call.country_stats)
    /\ Len(call.all_ips) = CONCURRENT_TESTS + 1
    /\ call.log = <<[ev |-> "fetch", source |-> 1, i |-> CONCURRENT_TESTS + 1],
                    [ev |-> "batch", source |-> 1, i |-> 0]>>
    /\ Len(call.all_results) = CONCURRENT_TESTS

(* a probe that did not measure: no connection, or an address rejected    *)
(* before any connection                                                  *)
Unmeasured(r) ==
    \/ r.best_latency = None
    \/ is_private(r.ip) \/ is_loopback(r.ip) \/ is_link_local(r.ip)

(* C35: in ip_delay_tester, no counter ever decreases, only target        *)
(* countries have counters, and a batch raises the counter of a target    *)
(* country by the number of its results that measured a connection and    *)
(* carry that country: failed and rejected probes count for nothing.      *)
C35_CountersCountMeasuredTargets ==
    [][/\ DOMAIN call'.country_stats \subseteq Range(DELAY_TARGET_COUNTRIES)
       /\ \A c \in Range(DELAY_TARGET_COUNTRIES) :
              GetCount(call'.country_stats, c) - GetCount(call.country_stats, c) =
                  IF call.pc = "d_batch"
                  THEN Cardinality({k \in 1..Len(call'.batch_results) :
                           /\ call'.batch_results[k].country = c
                           /\ ~Unmeasured(call'.batch_results[k])})
                  ELSE 0]_vars

(* C35 witness: of the three candidates of the first source one answered  *)
(* from the US, one timed out and one was rejected as private; US counts  *)
(* one and nothing else is counted                                        *)
C35_Witness ==
    /\ call.pc = "d_after"
    /\ call.source = 1
    /\ Len(call.all_results) = 3
    /\ call.all_results[1].country = "US"
    /\ call.all_results[2].best_latency = None
    /\ call.all_results[2].country = "UNKNOWN"
    /\ call.all_results[3].country = "INVALID"
    /\ call.country_stats = Put(EmptyDict, "US", 1)

====
